---- MODULE Spec2Model ----
(***************************************************************************)
(* malachite: the mxbl domain check of MalachiteServer.                    *)
(*                                                                         *)
(* Text is modelled as sequences of one-character strings so that          *)
(* str.rstrip, fnmatch and ipaddress parsing are computed, not assumed.    *)
(* IP addresses are scaled down to two one-bit groups: "x.y" is an IPv4    *)
(* literal, "x:y" an IPv6 literal, and "x.y/p" / "x:y/p" (p in 0..2) a     *)
(* network in strict form (host bits zero), as ipaddress.ip_network.       *)
(***************************************************************************)
EXTENDS Integers, Sequences, FiniteSets, TLC

(***************************************************************************)
(* Text helpers                                                            *)
(***************************************************************************)

\* str.lower on one character (the alphabet has two cased letters)
LowerChar(c) ==
    IF c = "A" THEN "a" ELSE IF c = "B" THEN "b" ELSE IF c = "M" THEN "m" ELSE c

\* str.lower / re.I case folding
Lower(s) == [i \in 1..Len(s) |-> LowerChar(s[i])]

RECURSIVE RStripDot(_)
\* str.rstrip("."): drop every trailing "."
RStripDot(s) ==
    IF s # <<>> /\ s[Len(s)] = "."
    THEN RStripDot(SubSeq(s, 1, Len(s) - 1))
    ELSE s

Last(q) == q[Len(q)]

\* the suffixes of s, the empty one included: the start positions re.search tries
Suffixes(s) == {SubSeq(s, i, Len(s)) : i \in 1..(Len(s) + 1)}

(***************************************************************************)
(* ipaddress (scaled down)                                                 *)
(***************************************************************************)

Bits == {"0", "1"}

BitVal(c) == IF c = "1" THEN 1 ELSE 0

\* ipaddress.ip_address(value) succeeds: version 4 or 6, else ValueError
IsV4(s) == Len(s) = 3 /\ s[1] \in Bits /\ s[2] = "." /\ s[3] \in Bits
IsV6(s) == Len(s) = 3 /\ s[1] \in Bits /\ s[2] = ":" /\ s[3] \in Bits
IsIp(s) == IsV4(s) \/ IsV6(s)

IpVersion(s) == IF IsV4(s) THEN 4 ELSE 6
IpValue(s) == 2 * BitVal(s[1]) + BitVal(s[3])

\* 2^(2 - p) for a prefix length character
HostSpan(p) == IF p = "0" THEN 4 ELSE IF p = "1" THEN 2 ELSE 1

\* ipaddress.ip_network(pattern) succeeds (strict: no host bits set)
IsNet(s) ==
    /\ Len(s) = 5
    /\ IsIp(SubSeq(s, 1, 3))
    /\ s[4] = "/"
    /\ s[5] \in {"0", "1", "2"}
    /\ IpValue(SubSeq(s, 1, 3)) % HostSpan(s[5]) = 0

\* ip_address(value) in ip_network(net): same version and same prefix
NetContains(net, addr) ==
    /\ IpVersion(SubSeq(net, 1, 3)) = IpVersion(addr)
    /\ IpValue(addr) \div HostSpan(net[5]) = IpValue(SubSeq(net, 1, 3)) \div HostSpan(net[5])

(***************************************************************************)
(* Patterns (util.py)                                                      *)
(***************************************************************************)

PatternType == {"Domain", "Glob", "Regex", "Cidr", "IpAddr"}

\* a Pattern object: its class and its raw text
Pattern(ty, raw) == [ty |-> ty, raw |-> raw]

RECURSIVE GlobFull(_, _)
\* fnmatch.translate(pat) matched against the whole of s: "*" is ".*", "?" is "."
GlobFull(pat, s) ==
    IF pat = <<>> THEN s = <<>>
    ELSE IF pat[1] = "*"
         THEN \/ GlobFull(Tail(pat), s)
              \/ s # <<>> /\ GlobFull(pat, Tail(s))
    ELSE IF s = <<>> THEN FALSE
    ELSE IF pat[1] = "?" THEN GlobFull(Tail(pat), Tail(s))
    ELSE pat[1] = s[1] /\ GlobFull(Tail(pat), Tail(s))

\* Glob.__eq__: re.search of "(?s:...)\Z" with re.I -- anchored at the end only
GlobEq(raw, value) ==
    \E suf \in Suffixes(Lower(value)) : GlobFull(Lower(raw), suf)

RECURSIVE RegexPrefix(_, _)
\* the regex subset of the model: literals, "." (any character), a leading "^"
\* and a trailing "$"; RegexPrefix matches pat at the start of s
RegexPrefix(pat, s) ==
    IF pat = <<>> THEN TRUE
    ELSE IF pat = <<"$">> THEN s = <<>>
    ELSE IF s = <<>> THEN FALSE
    ELSE (pat[1] = "." \/ pat[1] = s[1]) /\ RegexPrefix(Tail(pat), Tail(s))

\* Regex.__eq__: re.search with re.I -- unanchored
RegexEq(raw, value) ==
    IF raw # <<>> /\ raw[1] = "^"
    THEN RegexPrefix(Lower(Tail(raw)), Lower(value))
    ELSE \E suf \in Suffixes(Lower(value)) : RegexPrefix(Lower(raw), suf)

\* Domain.__eq__ comparing the candidate as it comes
DomainEqAsIs(raw, value) == RStripDot(raw) = value

\* Domain.__eq__: both sides without the root dot, case-sensitive
DomainEq(raw, value) == RStripDot(raw) = RStripDot(value)

\* Cidr.__eq__ comparing the bits without the version of the address
CidrEqAnyVersion(raw, value) ==
    IF IsIp(value)
    THEN IpValue(value) \div HostSpan(raw[5]) = IpValue(SubSeq(raw, 1, 3)) \div HostSpan(raw[5])
    ELSE FALSE

\* Cidr.__eq__: a value that is no address falls to object.__eq__, which is False
CidrEq(raw, value) == IF IsIp(value) THEN NetContains(raw, value) ELSE FALSE

\* IpAddr.__eq__: a value that is no address is False
IpAddrEq(raw, value) ==
    IF IsIp(value)
    THEN IpVersion(raw) = IpVersion(value) /\ IpValue(raw) = IpValue(value)
    ELSE FALSE

\* Pattern._delim as the constructors set it
_delim(ty) ==
    CASE ty = "Domain" -> <<"'">>
      [] ty = "Glob"   -> <<"%">>
      [] ty = "Regex"  -> <<"/">>
      [] OTHER         -> <<>>

\* Pattern.__str__: the raw text between the delimiters of its class
__str__(pat) == _delim(pat.ty) \o pat.raw \o _delim(pat.ty)

\* pat == search, dispatched on the class of pat
PatEq(pat, value) ==
    CASE pat.ty = "Domain" -> DomainEq(pat.raw, value)
      [] pat.ty = "Glob"   -> GlobEq(pat.raw, value)
      [] pat.ty = "Regex"  -> RegexEq(pat.raw, value)
      [] pat.ty = "Cidr"   -> CidrEq(pat.raw, value)
      [] pat.ty = "IpAddr" -> IpAddrEq(pat.raw, value)

\* parse_pattern looking for a "/" before it looks at the delimiters
ParsePatternSlashFirst(text) ==
    IF (\E i \in 1..Len(text) : text[i] = "/") /\ ~IsNet(text)
    THEN [ok |-> FALSE, pat |-> Pattern("Cidr", text)]
    ELSE IF Len(text) >= 1 /\ text[1] = "%" /\ text[Len(text)] = "%"
    THEN [ok |-> TRUE,
          pat |-> Pattern("Glob", IF Len(text) >= 2 THEN SubSeq(text, 2, Len(text) - 1) ELSE <<>>)]
    ELSE IF IsNet(text) THEN [ok |-> TRUE, pat |-> Pattern("Cidr", text)]
    ELSE IF IsIp(text) THEN [ok |-> TRUE, pat |-> Pattern("IpAddr", text)]
    ELSE [ok |-> TRUE, pat |-> Pattern("Domain", text)]

\* util.parse_pattern: [ok |-> FALSE] stands for the ValueError("invalid pattern")
ParsePattern(text) ==
    IF Len(text) >= 1 /\ text[1] = "%" /\ text[Len(text)] = "%"
    THEN [ok |-> TRUE,
          pat |-> Pattern("Glob", IF Len(text) >= 2 THEN SubSeq(text, 2, Len(text) - 1) ELSE <<>>)]
    ELSE IF Len(text) >= 1 /\ text[1] = "/" /\ text[Len(text)] = "/"
    THEN [ok |-> TRUE,
          pat |-> Pattern("Regex", IF Len(text) >= 2 THEN SubSeq(text, 2, Len(text) - 1) ELSE <<>>)]
    ELSE IF \E i \in 1..Len(text) : text[i] = "/"
    THEN IF IsNet(text)
         THEN [ok |-> TRUE, pat |-> Pattern("Cidr", text)]
         ELSE [ok |-> FALSE, pat |-> Pattern("Cidr", text)]
    ELSE IF IsIp(text)
         THEN [ok |-> TRUE, pat |-> Pattern("IpAddr", text)]
         ELSE [ok |-> TRUE, pat |-> Pattern("Domain", text)]

\* isinstance(pat, MxblEntry): list items are entries or bare patterns
IsEntry(item) == "id" \in DOMAIN item

RECURSIVE match_patterns_last(_, _)
\* match_patterns without the return inside the loop: the last match wins
match_patterns_last(patterns, search) ==
    IF patterns = <<>> THEN <<>>
    ELSE IF PatEq(IF IsEntry(Last(patterns)) THEN Last(patterns).pattern ELSE Last(patterns), search)
         THEN <<Last(patterns)>>
         ELSE match_patterns_last(SubSeq(patterns, 1, Len(patterns) - 1), search)

RECURSIVE match_patterns(_, _)
\* util.match_patterns: the first item, in list order, whose pattern equals
\* search, as a list of length one; <<>> stands for None
match_patterns(patterns, search) ==
    IF patterns = <<>> THEN <<>>
    ELSE IF PatEq(IF IsEntry(patterns[1]) THEN patterns[1].pattern ELSE patterns[1], search)
         THEN <<patterns[1]>>
         ELSE match_patterns(Tail(patterns), search)

(***************************************************************************)
(* The mxbl table (database.py)                                            *)
(***************************************************************************)

\* MxblEntry.from_record: the columns the check reads
Entry(row) ==
    [id |-> row.id, pattern |-> row.pattern, active |-> row.active, reason |-> row.reason]

\* ORDER BY id, the default of list_all
RowBeforeById(r1, r2) == r1.id < r2.id

\* ORDER BY active DESC, id
RowBefore(r1, r2) ==
    \/ r1.active /\ ~r2.active
    \/ r1.active = r2.active /\ r1.id < r2.id

RECURSIVE list_all(_)
\* MxblTable.list_all(order_by="active DESC, id") over the set of rows
list_all(rows) ==
    IF rows = {} THEN <<>>
    ELSE LET first == CHOOSE r \in rows : \A o \in rows \ {r} : RowBefore(r, o)
         IN  <<Entry(first)>> \o list_all(rows \ {first})

\* MxblTable.hit: UPDATE ... SET hits = hits + 1 WHERE id = $1
hit(rows, id) ==
    {IF r.id = id THEN [r EXCEPT !.hits = @ + 1] ELSE r : r \in rows}

(***************************************************************************)
(* DNS                                                                     *)
(***************************************************************************)

\* the names of the model
DomA == <<"a">>
DomB == <<"b">>
DomC == <<"c">>
MxM == <<"m", ".">>
MxN == <<"n", ".">>

Rec(ty, value) == [rdtype |-> ty, value |-> value]

\* the fixed zone: the records Resolver.resolve returns for (qname, rdtype), in
\* answer order; <<>> is NXDOMAIN / NoAnswer, which resolve raises
Zone(name, ty) ==
    CASE name = DomA /\ ty = "MX"   -> <<Rec("MX", MxM), Rec("MX", MxN)>>
      [] name = DomA /\ ty = "A"    -> <<Rec("A", <<"0", ".", "1">>)>>
      [] name = DomA /\ ty = "AAAA" -> <<Rec("AAAA", <<"0", ":", "1">>)>>
      [] name = MxM /\ ty = "A"     -> <<Rec("A", <<"1", ".", "0">>)>>
      [] name = MxM /\ ty = "AAAA"  -> <<Rec("AAAA", <<"1", ":", "0">>)>>
      [] name = MxN /\ ty = "A"     -> <<Rec("A", <<"1", ".", "1">>)>>
      [] name = DomB /\ ty = "A"    -> <<Rec("A", <<"0", ".", "0">>), Rec("A", <<"1", ".", "0">>)>>
      [] OTHER -> <<>>

(***************************************************************************)
(* The clean-domain cache: cachetools.TTLCache(maxsize, ttl)               *)
(*                                                                         *)
(* The cache is the list of its links in list order (oldest first), each   *)
(* link a key and its expiry time.  An iterator over the cache (the for    *)
(* loop of cache_evict_by_pattern) holds a link: cur is its key, live says *)
(* whether that link is still in the list.  A link that is unlinked keeps  *)
(* its next pointer, so an iterator on an unlinked link goes on through    *)
(* the links unlinked after it (path) and rejoins the list at rejoin.      *)
(***************************************************************************)

\* Config.cache_ttl and Config.cache_size
cache_ttl == 2
cache_size == 2

Link(key, expires) == [key |-> key, expires |-> expires]

\* the list head, where an iteration ends
ROOT == <<"ROOT">>

NoIter == [cur |-> ROOT, live |-> FALSE, path |-> <<>>, rejoin |-> ROOT]

Keys(c) == {c[i].key : i \in 1..Len(c)}

IndexOf(c, key) == CHOOSE i \in 1..Len(c) : c[i].key = key

Without(c, key) == SelectSeq(c, LAMBDA l : l.key # key)

\* CacheContains without the test of the expiry time
CacheContainsNoExpiry(c, key, time) ==
    \E i \in 1..Len(c) : c[i].key = key

\* the entries of a cache that have not expired, in order
Unexpired(c, time) == SelectSeq(c, LAMBDA l : time < l.expires)

\* TTLCache.__contains__: the key has a link and the link has not expired
CacheContains(c, key, time) ==
    \E i \in 1..Len(c) : c[i].key = key /\ time < c[i].expires

\* _Link.unlink on the link of key, seen from the cache and from every iterator
Unlink(st, key) ==
    LET i == IndexOf(st.c, key)
        succ == IF i < Len(st.c) THEN st.c[i + 1].key ELSE ROOT
    IN  [c |-> Without(st.c, key),
         its |-> [t \in DOMAIN st.its |->
                    IF st.its[t].live /\ st.its[t].cur = key
                    THEN [st.its[t] EXCEPT !.live = FALSE, !.rejoin = succ]
                    ELSE IF ~st.its[t].live /\ st.its[t].rejoin = key
                    THEN [st.its[t] EXCEPT !.path = Append(@, st.c[i]), !.rejoin = succ]
                    ELSE st.its[t]]]

RECURSIVE Expire(_, _)
\* TTLCache.expire: unlink from the front while the front link has expired
Expire(st, time) ==
    IF st.c # <<>> /\ ~(time < st.c[1].expires)
    THEN Expire(Unlink(st, st.c[1].key), time)
    ELSE st

\* MakeRoom that evicts nothing
MakeRoomNone(st) == st

RECURSIVE MakeRoom(_)
\* Cache.__setitem__ for a new key: popitem() while the cache is full
MakeRoom(st) ==
    IF Len(st.c) + 1 > cache_size
    THEN MakeRoom(Unlink(st, st.c[1].key))
    ELSE st

\* TTLCache.__setitem__: expire, make room for a new key, then (re)link the
\* key at the end of the list with a fresh expiry
CacheSet(st, key, time) ==
    LET s1 == Expire(st, time)
        s2 == IF key \in Keys(s1.c) THEN s1 ELSE MakeRoom(s1)
    IN  [c |-> Append(Without(s2.c, key), Link(key, time + cache_ttl)),
         its |-> s2.its]

\* TTLCache.__delitem__ raises KeyError: no link, or the link had expired
CacheDelRaises(c, key, time) == ~CacheContains(c, key, time)

\* TTLCache.__delitem__: the link, if any, is unlinked even when it raises
CacheDel(st, key) ==
    IF key \in Keys(st.c) THEN Unlink(st, key) ELSE st

\* the links an iterator has still to visit, in order
Upcoming(it, c) ==
    IF it.live
    THEN SubSeq(c, IndexOf(c, it.cur) + 1, Len(c))
    ELSE it.path \o (IF it.rejoin = ROOT THEN <<>>
                     ELSE SubSeq(c, IndexOf(c, it.rejoin), Len(c)))

\* the iterator after skipping to the n-th of its upcoming links
IterAt(it, c, n) ==
    LET up == Upcoming(it, c)
        np == IF it.live THEN 0 ELSE Len(it.path)
    IN  IF n <= np
        THEN [cur |-> up[n].key, live |-> FALSE,
              path |-> SubSeq(it.path, n + 1, np), rejoin |-> it.rejoin]
        ELSE [cur |-> up[n].key, live |-> TRUE, path |-> <<>>, rejoin |-> ROOT]

\* TTLCache.__iter__, one next(): the next link that has not expired; cur = ROOT
\* when the iteration is over
IterNext(it, c, time) ==
    LET up == Upcoming(it, c)
        ok == {n \in 1..Len(up) : time < up[n].expires}
    IN  IF ok = {} THEN NoIter
        ELSE IterAt(it, c, CHOOSE n \in ok : \A o \in ok : n <= o)

\* iter(self.cleanmails) followed by the first next()
IterStart(c, time) ==
    IterNext([cur |-> ROOT, live |-> FALSE, path |-> <<>>,
              rejoin |-> IF c = <<>> THEN ROOT ELSE c[1].key], c, time)

(***************************************************************************)
(* Bounds and inputs                                                       *)
(***************************************************************************)

\* concurrent handler tasks
NTasks == 2
\* clock ticks
MaxTime == 2
\* rows the table holds before the first command
InitRules == 2
\* ids the table hands out to ADD
MaxId == 1
\* hits counted per row
MaxHits == 2
\* unlinked links an iterator of the cache drags behind it
MaxPath == 1
\* characters of a pattern text
MaxText == 5
\* characters of a candidate string
MaxCand == 3

Tasks == 1..NTasks

\* the domains of the NickServ notices
Domains == {DomA, DomB, DomC}

\* the notices: REGISTER (the account is dropped) and VERIFY:EMAILCHG (frozen)
Notices == {"register", "emailchg"} \X Domains

\* the notices and pattern texts of the interleaved runs
ConcNotices == {"register"} \X {DomB, DomC}
ConcTexts == { <<"b">>, <<"1", ".", "0", "/", "1">> }

\* pattern texts given to ADD and EDITPATTERN; the last one is no network
PatternTexts ==
    { <<"a">>, <<"m">>, <<"1", ":", "0">>, <<"1", ".", "0", "/", "1">>,
      <<"1", ".", "1", "/", "1">> }

\* the patterns of the rows the table starts with
RulePool == {ParsePattern(x).pat : x \in {y \in PatternTexts : ParsePattern(y).ok}}

\* a row of mxbl; its reason is the one ADD was given
Row(id, pattern, active, hits) ==
    [id |-> id, pattern |-> pattern, active |-> active, hits |-> hits, reason |-> "spam"]

\* the tables the bot can find at start-up: ids 1..n, no hits yet
InitTables ==
    UNION { { {Row(i, f[i][1], f[i][2], 0) : i \in 1..n} :
              f \in [1..n -> RulePool \X BOOLEAN] } : n \in 0..InitRules }

(***************************************************************************)
(* State                                                                   *)
(***************************************************************************)

VARIABLES
    mxbl,        \* the rows of the mxbl table
    nextId,      \* the id the next INSERT gets
    cleanmails,  \* MalachiteServer.cleanmails, as its list of links
    iter,        \* per task, the iterator of its cache_evict_by_pattern loop
    now,         \* the clock of the cache
    task,        \* per task, the handler it runs and that handler's locals
    settings     \* Settings._settings, the dynamic settings as loaded

vars == <<mxbl, nextId, cleanmails, iter, now, task, settings>>

\* a task slot with no handler; lookups, tested, fetches and hits record what
\* the handler did, text the argument it was given, sent the messages it sent
\* to NickServ, seen the unexpired keys of the cache when it came to it
Idle ==
    [kind |-> "idle", pc |-> "idle", domain |-> <<>>, patterns |-> <<>>,
     queue |-> <<>>, found |-> <<>>, pat |-> <<>>, id |-> 0, seen |-> {},
     reply |-> "", lookups |-> <<>>, tested |-> <<>>, fetches |-> 0, hits |-> <<>>,
     text |-> <<>>, sent |-> <<>>, reason |-> ""]

Free(t) == task[t].pc = "idle"

\* no handler has just ended: a handler that has ended returns before any
\* other step is taken, so its locals are seen in exactly one state
Quiet == \A t \in Tasks : task[t].pc \notin {"done", "raised"}

IsLive(tk) == tk.kind \in {"register", "emailchg"}
IsSweep(tk) == tk.kind \in {"add", "editpattern"}

Item(name, ty, org) == [name |-> name, ty |-> ty, org |-> org]

\* queue = [(domain, MX), (domain, A), (domain, AAAA)]
InitQueue(domain) ==
    <<Item(domain, "MX", "seed"), Item(domain, "A", "seed"), Item(domain, "AAAA", "seed")>>

\* the state after MalachiteServer.__init__ and Settings.load, over a table
\* of tables and the settings the database can hold; a setting is <<value>>,
\* or <<>> when the database has no row of that name
InitLoaded(tables, loaded) ==
    /\ mxbl \in tables
    /\ nextId = Cardinality(mxbl) + 1
    /\ cleanmails = <<>>
    /\ iter = [t \in Tasks |-> NoIter]
    /\ now = 0
    /\ task = [t \in Tasks |-> Idle]
    /\ settings \in loaded

\* the same with enforcement not paused
InitWith(tables) == InitLoaded(tables, {[pause |-> <<"0">>]})

\* Settings.__getattr__: self._settings.get(attr), <<>> being None
__getattr__(attr) == settings[attr]

(***************************************************************************)
(* _check_domain                                                           *)
(***************************************************************************)

RECURSIVE ProcessRecordsBack(_, _)
\* ProcessRecords with queue.append in place of queue.insert(0, ...)
ProcessRecordsBack(resp, w) ==
    IF resp = <<>> THEN w
    ELSE LET rec == resp[1]
             q1 == IF rec.rdtype = "MX"
                   THEN w.queue \o <<Item(rec.value, "A", "mx"), Item(rec.value, "AAAA", "mx")>>
                   ELSE w.queue
             f1 == match_patterns(w.patterns, rec.value)
             w1 == [w EXCEPT !.queue = q1, !.found = f1, !.tested = Append(@, rec.value)]
         IN  IF rec.rdtype \notin {"MX", "A", "AAAA"} THEN ProcessRecordsBack(Tail(resp), w)
             ELSE IF f1 # <<>> THEN w1
             ELSE ProcessRecordsBack(Tail(resp), w1)

\* the items at the front of a queue that come from MX records
MxPrefix(q) ==
    SubSeq(q, 1, CHOOSE k \in 0..Len(q) :
                    /\ \A i \in 1..k : q[i].org = "mx"
                    /\ k < Len(q) => q[k + 1].org # "mx")

RECURSIVE ProcessRecordsInOrder(_, _)
\* ProcessRecords queueing the exchanges in the order of the answer, ahead of
\* the items of the seed
ProcessRecordsInOrder(resp, w) ==
    IF resp = <<>> THEN w
    ELSE LET rec == resp[1]
             q1 == IF rec.rdtype = "MX"
                   THEN MxPrefix(w.queue)
                          \o <<Item(rec.value, "A", "mx"), Item(rec.value, "AAAA", "mx")>>
                          \o SubSeq(w.queue, Len(MxPrefix(w.queue)) + 1, Len(w.queue))
                   ELSE w.queue
             f1 == match_patterns(w.patterns, rec.value)
             w1 == [w EXCEPT !.queue = q1, !.found = f1, !.tested = Append(@, rec.value)]
         IN  IF rec.rdtype \notin {"MX", "A", "AAAA"} THEN ProcessRecordsInOrder(Tail(resp), w)
             ELSE IF f1 # <<>> THEN w1
             ELSE ProcessRecordsInOrder(Tail(resp), w1)

RECURSIVE ProcessRecordsMx(_, _)
\* ProcessRecords queueing an MX lookup of every exchange as well
ProcessRecordsMx(resp, w) ==
    IF resp = <<>> THEN w
    ELSE LET rec == resp[1]
             q1 == IF rec.rdtype = "MX"
                   THEN <<Item(rec.value, "MX", "mx"), Item(rec.value, "A", "mx"),
                          Item(rec.value, "AAAA", "mx")>> \o w.queue
                   ELSE w.queue
             f1 == match_patterns(w.patterns, rec.value)
             w1 == [w EXCEPT !.queue = q1, !.found = f1, !.tested = Append(@, rec.value)]
         IN  IF rec.rdtype \notin {"MX", "A", "AAAA"} THEN ProcessRecordsMx(Tail(resp), w)
             ELSE IF f1 # <<>> THEN w1
             ELSE ProcessRecordsMx(Tail(resp), w1)

RECURSIVE ProcessRecords(_, _)
\* the for loop over the records of one answer: w carries queue, found and
\* tested; an MX record pushes (exchange, AAAA) then (exchange, A) on the front
ProcessRecords(resp, w) ==
    IF resp = <<>> THEN w
    ELSE LET rec == resp[1]
             q1 == IF rec.rdtype = "MX"
                   THEN <<Item(rec.value, "A", "mx"), Item(rec.value, "AAAA", "mx")>> \o w.queue
                   ELSE w.queue
             f1 == match_patterns(w.patterns, rec.value)
             w1 == [w EXCEPT !.queue = q1, !.found = f1, !.tested = Append(@, rec.value)]
         IN  IF rec.rdtype \notin {"MX", "A", "AAAA"} THEN ProcessRecords(Tail(resp), w)
             ELSE IF f1 # <<>> THEN w1
             ELSE ProcessRecords(Tail(resp), w1)

\* WalkStep without the try/except around resolve: a lookup that raises ends
\* the walk
WalkStepAbort(tk, ok) ==
    LET item == tk.queue[1]
        resp == IF ok THEN Zone(item.name, item.ty) ELSE <<>>
        popped == [tk EXCEPT !.queue = IF resp = <<>> THEN <<>> ELSE Tail(@),
                             !.lookups = Append(@, [name |-> item.name, ty |-> item.ty,
                                                    org |-> item.org, ok |-> resp # <<>>])]
    IN  ProcessRecords(resp, popped)

\* one turn of the while loop: pop the front item, resolve it, walk the answer;
\* ok = FALSE is a lookup that raises (timeout, transport error)
WalkStep(tk, ok) ==
    LET item == tk.queue[1]
        resp == IF ok THEN Zone(item.name, item.ty) ELSE <<>>
        popped == [tk EXCEPT !.queue = Tail(@),
                             !.lookups = Append(@, [name |-> item.name, ty |-> item.ty,
                                                    org |-> item.org, ok |-> resp # <<>>])]
    IN  ProcessRecords(resp, popped)

\* CheckEnter without the direct test: the walk starts at once
CheckEnterNoDirect(tk, domain, patterns) ==
    [tk EXCEPT !.domain = domain, !.patterns = patterns, !.found = <<>>,
               !.queue = InitQueue(domain), !.lookups = <<>>, !.tested = <<domain>>]

\* the start of a check against patterns: the direct test, then the queue
CheckEnter(tk, domain, patterns) ==
    LET f == match_patterns(patterns, domain)
    IN  [tk EXCEPT !.domain = domain, !.patterns = patterns, !.found = f,
                   !.queue = IF f = <<>> THEN InitQueue(domain) ELSE <<>>,
                   !.lookups = <<>>, !.tested = <<domain>>]

\* the check is over: a match, or nothing left to look up
CheckOver(tk) == tk.found # <<>> \/ tk.queue = <<>>

(***************************************************************************)
(* on_nickserv: a REGISTER or VERIFY:EMAILCHG notice                       *)
(***************************************************************************)

\* on_nickserv joining a check of the same domain that is under way instead
\* of starting its own
on_nickservSingleFlight(t, kind, domain) ==
    /\ Free(t)
    /\ task' = [task EXCEPT ![t] =
                  IF CacheContains(cleanmails, domain, now)
                  THEN [Idle EXCEPT !.kind = kind, !.pc = "done", !.domain = domain,
                                    !.reply = "cached"]
                  ELSE IF \E u \in Tasks \ {t} : /\ IsLive(task[u])
                                                  /\ task[u].domain = domain
                                                  /\ task[u].pc \notin {"done", "raised"}
                  THEN [Idle EXCEPT !.kind = kind, !.pc = "done", !.domain = domain,
                                    !.reply = "joined"]
                  ELSE [Idle EXCEPT !.kind = kind, !.pc = "list_all", !.domain = domain]]
    /\ UNCHANGED <<mxbl, nextId, cleanmails, iter, now, settings>>

\* the handler up to its first await: the cache test, then the rule fetch is
\* requested
on_nickserv(t, kind, domain) ==
    /\ Free(t)
    /\ task' = [task EXCEPT ![t] =
                  IF CacheContains(cleanmails, domain, now)
                  THEN [Idle EXCEPT !.kind = kind, !.pc = "done", !.domain = domain,
                                    !.reply = "cached"]
                  ELSE [Idle EXCEPT !.kind = kind, !.pc = "list_all", !.domain = domain]]
    /\ UNCHANGED <<mxbl, nextId, cleanmails, iter, now, settings>>

\* Conclude with the cache insert ahead of the test of found
ConcludeInsertFirst(t, tk) ==
    IF IsLive(tk)
    THEN LET st == CacheSet([c |-> cleanmails, its |-> iter], tk.domain, now)
         IN  /\ cleanmails' = st.c
             /\ iter' = st.its
             /\ task' = [task EXCEPT ![t] =
                           IF tk.found # <<>> THEN [tk EXCEPT !.pc = "hit"]
                           ELSE [tk EXCEPT !.pc = "done", !.reply = "clean"]]
             /\ UNCHANGED <<mxbl, nextId, now, settings>>
    ELSE /\ task' = [task EXCEPT ![t] = [tk EXCEPT !.pc = "sweep_resume"]]
         /\ UNCHANGED <<mxbl, nextId, cleanmails, iter, now, settings>>

\* Conclude keeping a domain out of the cache when none of its lookups was
\* answered
ConcludeAnsweredOnly(t, tk) ==
    IF tk.found # <<>>
    THEN /\ task' = [task EXCEPT ![t] = [tk EXCEPT !.pc = "hit"]]
         /\ UNCHANGED <<mxbl, nextId, cleanmails, iter, now, settings>>
    ELSE LET st == IF \E i \in 1..Len(tk.lookups) : tk.lookups[i].ok
                   THEN CacheSet([c |-> cleanmails, its |-> iter], tk.domain, now)
                   ELSE [c |-> cleanmails, its |-> iter]
         IN  /\ cleanmails' = st.c
             /\ iter' = st.its
             /\ task' = [task EXCEPT ![t] =
                           [tk EXCEPT !.pc = "done", !.reply = "clean",
                                      !.seen = Keys(Unexpired(cleanmails, now))]]
             /\ UNCHANGED <<mxbl, nextId, now, settings>>

\* what follows the end of a check, by the handler that ran it; tk is the
\* task at the end of the check
Conclude(t, tk) ==
    IF IsLive(tk)
    THEN IF tk.found # <<>>
         THEN \* await self.database.hit(found.id)
              /\ task' = [task EXCEPT ![t] = [tk EXCEPT !.pc = "hit"]]
              /\ UNCHANGED <<mxbl, nextId, cleanmails, iter, now, settings>>
         ELSE \* self.cleanmails[domain] = True
              LET st == CacheSet([c |-> cleanmails, its |-> iter], tk.domain, now)
              IN  /\ cleanmails' = st.c
                  /\ iter' = st.its
                  /\ task' = [task EXCEPT ![t] =
                                [tk EXCEPT !.pc = "done", !.reply = "clean",
                                           !.seen = Keys(Unexpired(cleanmails, now))]]
                  /\ UNCHANGED <<mxbl, nextId, now, settings>>
    ELSE IF IsSweep(tk)
    THEN \* the check of cache_evict_by_pattern returns to the loop
         /\ task' = [task EXCEPT ![t] = [tk EXCEPT !.pc = "sweep_resume"]]
         /\ UNCHANGED <<mxbl, nextId, cleanmails, iter, now, settings>>
    ELSE \* TESTPAT and TEST reply
         /\ task' = [task EXCEPT ![t] =
                       [tk EXCEPT !.pc = "done",
                                  !.reply = IF tk.found # <<>> THEN "matches" ELSE "does not match"]]
         /\ UNCHANGED <<mxbl, nextId, cleanmails, iter, now, settings>>

\* database.list_all answers: the snapshot, the direct test, and the queue
ListAll(t) ==
    /\ task[t].pc = "list_all"
    /\ LET tk == CheckEnter([task[t] EXCEPT !.fetches = @ + 1],
                            task[t].domain, list_all(mxbl))
       IN  IF CheckOver(tk)
           THEN Conclude(t, tk)
           ELSE /\ task' = [task EXCEPT ![t] = [tk EXCEPT !.pc = "walk"]]
                /\ UNCHANGED <<mxbl, nextId, cleanmails, iter, now, settings>>

\* ListAllFails with the exception swallowed: the check goes on with no rules
ListAllFailsSwallowed(t) ==
    /\ task[t].pc = "list_all"
    /\ IsLive(task[t])
    /\ task' = [task EXCEPT ![t] =
                  [CheckEnter(task[t], task[t].domain, <<>>) EXCEPT !.pc = "walk"]]
    /\ UNCHANGED <<mxbl, nextId, cleanmails, iter, now, settings>>

\* database.list_all raises (the connection, the query): the exception leaves
\* _check_domain and on_nickserv and reaches line_read
ListAllFails(t) ==
    /\ task[t].pc = "list_all"
    /\ IsLive(task[t])
    /\ task' = [task EXCEPT ![t].pc = "raised", ![t].reply = "DbError"]
    /\ UNCHANGED <<mxbl, nextId, cleanmails, iter, now, settings>>

\* one DNS lookup of the walk and what the handler does with its answer
Resolve(t, ok) ==
    /\ task[t].pc = "walk"
    /\ LET tk == WalkStep(task[t], ok)
       IN  IF CheckOver(tk)
           THEN Conclude(t, tk)
           ELSE /\ task' = [task EXCEPT ![t] = tk]
                /\ UNCHANGED <<mxbl, nextId, cleanmails, iter, now, settings>>

\* a message sent to NickServ: BADMAIL ADD *@mask with the reason of rule id,
\* FDROP of the account, FREEZE of the account over *@mask and rule id
Msg(cmd, mask, id) == [cmd |-> cmd, mask |-> mask, id |-> id]

\* Enforce sending FDROP whatever the event
EnforceDropAlways(tk) ==
    IF tk.found[1].active /\ __getattr__("pause") = <<"0">>
    THEN <<Msg("BADMAIL ADD", tk.domain, tk.found[1].id), Msg("FDROP", <<>>, 0)>>
    ELSE <<>>

\* Enforce without the test of found.active
EnforceWarnToo(tk) ==
    IF __getattr__("pause") = <<"0">>
    THEN <<Msg("BADMAIL ADD", tk.domain, tk.found[1].id),
           IF tk.kind = "register" THEN Msg("FDROP", <<>>, 0)
           ELSE Msg("FREEZE", tk.domain, tk.found[1].id)>>
    ELSE <<>>

\* Enforce holding back only when pause is "1"
EnforceUnlessPaused(tk) ==
    IF tk.found[1].active /\ __getattr__("pause") # <<"1">>
    THEN <<Msg("BADMAIL ADD", tk.domain, tk.found[1].id),
           IF tk.kind = "register" THEN Msg("FDROP", <<>>, 0)
           ELSE Msg("FREEZE", tk.domain, tk.found[1].id)>>
    ELSE <<>>

\* what on_nickserv sends once the hit is counted: on an active rule, and
\* with enforcement not paused, BADMAIL ADD and then FDROP (REGISTER, drop) or
\* FREEZE (VERIFY:EMAILCHG)
Enforce(tk) ==
    IF tk.found[1].active /\ __getattr__("pause") = <<"0">>
    THEN <<Msg("BADMAIL ADD", tk.domain, tk.found[1].id),
           IF tk.kind = "register" THEN Msg("FDROP", <<>>, 0)
           ELSE Msg("FREEZE", tk.domain, tk.found[1].id)>>
    ELSE <<>>

\* Hit counting only the matches of active rules
HitActiveOnly(t) ==
    /\ task[t].pc = "hit"
    /\ \A r \in mxbl : r.id = task[t].found[1].id => r.hits < MaxHits
    /\ mxbl' = IF task[t].found[1].active THEN hit(mxbl, task[t].found[1].id) ELSE mxbl
    /\ task' = [task EXCEPT ![t].pc = "whois",
                            ![t].hits = IF task[t].found[1].active
                                        THEN Append(@, task[t].found[1].id) ELSE @,
                            ![t].sent = Enforce(task[t])]
    /\ UNCHANGED <<nextId, cleanmails, iter, now, settings>>

\* database.hit answers; the handler sends its enforcement and goes on to
\* send_whois
Hit(t) ==
    /\ task[t].pc = "hit"
    /\ \A r \in mxbl : r.id = task[t].found[1].id => r.hits < MaxHits
    /\ mxbl' = hit(mxbl, task[t].found[1].id)
    /\ task' = [task EXCEPT ![t].pc = "whois",
                            ![t].hits = Append(@, task[t].found[1].id),
                            ![t].sent = Enforce(task[t])]
    /\ UNCHANGED <<nextId, cleanmails, iter, now, settings>>

\* send_whois answers; the handler logs and returns
Whois(t) ==
    /\ task[t].pc = "whois"
    /\ task' = [task EXCEPT ![t].pc = "done", ![t].reply = "matched"]
    /\ UNCHANGED <<mxbl, nextId, cleanmails, iter, now, settings>>

\* the handler returns (or its exception reaches line_read / on_command)
Return(t) ==
    /\ task[t].pc \in {"done", "raised"}
    /\ task' = [task EXCEPT ![t] = Idle]
    /\ UNCHANGED <<mxbl, nextId, cleanmails, iter, now, settings>>

\* the clock of the cache advances
Tick ==
    /\ now < MaxTime
    /\ now' = now + 1
    /\ UNCHANGED <<mxbl, nextId, cleanmails, iter, task, settings>>

(***************************************************************************)
(* ADD and EDITPATTERN: cache_evict_by_pattern, then the table             *)
(***************************************************************************)

\* SweepEnter testing the cached domain itself only, without its chain
SweepEnterDirect(tk, it) ==
    IF it.cur = ROOT
    THEN [tk EXCEPT !.pc = "db", !.found = <<>>, !.queue = <<>>]
    ELSE [CheckEnter(tk, it.cur, tk.pat) EXCEPT !.pc = "sweep_resume", !.queue = <<>>]

\* the loop of cache_evict_by_pattern with its iterator at it: the check of
\* the next cached domain starts, or the loop is over and the table is written
SweepEnter(tk, it) ==
    IF it.cur = ROOT
    THEN [tk EXCEPT !.pc = "db", !.found = <<>>, !.queue = <<>>]
    ELSE LET ck == CheckEnter(tk, it.cur, tk.pat)
         IN  [ck EXCEPT !.pc = IF CheckOver(ck) THEN "sweep_resume" ELSE "walk"]

\* a command that parses a pattern and sweeps the cache with it
StartSweep(t, kind, id, text) ==
    /\ Free(t)
    /\ LET parsed == ParsePattern(text)
           it == IterStart(cleanmails, now)
           tk == [Idle EXCEPT !.kind = kind, !.id = id, !.text = text, !.pat = <<parsed.pat>>,
                              !.seen = {k \in Keys(cleanmails) : CacheContains(cleanmails, k, now)}]
       IN  IF ~parsed.ok
           THEN /\ task' = [task EXCEPT ![t] = [Idle EXCEPT !.kind = kind, !.id = id,
                                                        !.text = text,
                                                        !.pc = "done", !.reply = "error"]]
                /\ UNCHANGED iter
           ELSE /\ task' = [task EXCEPT ![t] = SweepEnter(tk, it)]
                /\ iter' = [iter EXCEPT ![t] = it]
    /\ UNCHANGED <<mxbl, nextId, cleanmails, now, settings>>

\* ADD <pattern>
_add(t, text) ==
    /\ nextId + Cardinality({u \in Tasks : task[u].kind = "add" /\ ~Free(u)}) <= MaxId
    /\ StartSweep(t, "add", 0, text)

\* EDITPATTERN <id> <pattern>
_edit_pattern(t, id, text) == StartSweep(t, "editpattern", id, text)

\* the check of one cached domain is back: del on a match, then the next domain
SweepResume(t) ==
    /\ task[t].pc = "sweep_resume"
    /\ LET st0 == [c |-> cleanmails, its |-> iter]
           del == task[t].found # <<>>
           st1 == IF del THEN CacheDel(st0, task[t].domain) ELSE st0
           it == IterNext(st1.its[t], st1.c, now)
       IN  IF del /\ CacheDelRaises(cleanmails, task[t].domain, now)
           THEN \* KeyError leaves the handler
                /\ task' = [task EXCEPT ![t].pc = "raised", ![t].reply = "KeyError"]
                /\ cleanmails' = st1.c
                /\ iter' = [st1.its EXCEPT ![t] = NoIter]
           ELSE /\ task' = [task EXCEPT ![t] = SweepEnter(task[t], it)]
                /\ cleanmails' = st1.c
                /\ iter' = [st1.its EXCEPT ![t] = it]
    /\ UNCHANGED <<mxbl, nextId, now, settings>>

\* MxblTable.edit_pattern: UPDATE ... SET pattern WHERE id = $1
edit_pattern(rows, id, pattern) ==
    {IF r.id = id THEN [r EXCEPT !.pattern = pattern] ELSE r : r \in rows}

\* database.add / database.edit_pattern answers; the command replies
Db(t) ==
    /\ task[t].pc = "db"
    /\ IF task[t].kind = "add"
       THEN /\ mxbl' = mxbl \cup {Row(nextId, task[t].pat[1], TRUE, 0)}
            /\ nextId' = nextId + 1
            /\ task' = [task EXCEPT ![t].pc = "done", ![t].reply = "added"]
       ELSE /\ mxbl' = edit_pattern(mxbl, task[t].id, task[t].pat[1])
            /\ nextId' = nextId
            /\ task' = [task EXCEPT ![t].pc = "done",
                           ![t].reply = IF \E r \in mxbl : r.id = task[t].id
                                        THEN "updated" ELSE "failed"]
    /\ UNCHANGED <<cleanmails, iter, now, settings>>

(***************************************************************************)
(* DEL, TOGGLE, EDITREASON, TESTPAT and CACHE                              *)
(***************************************************************************)

\* MxblTable.delete: DELETE FROM mxbl WHERE id = $1
delete(rows, id) == {r \in rows : r.id # id}

\* MxblTable.toggle: UPDATE ... SET active = NOT active WHERE id = $1
toggle(rows, id) ==
    {IF r.id = id THEN [r EXCEPT !.active = ~@] ELSE r : r \in rows}

\* MxblTable.edit_reason: UPDATE ... SET reason = $2 WHERE id = $1
edit_reason(rows, id, reason) ==
    {IF r.id = id THEN [r EXCEPT !.reason = reason] ELSE r : r \in rows}

\* a command that goes straight to the table with the id it was given
StartRow(t, kind, id, reason) ==
    /\ Free(t)
    /\ task' = [task EXCEPT ![t] = [Idle EXCEPT !.kind = kind, !.id = id, !.pc = "row",
                                                !.reason = reason]]
    /\ UNCHANGED <<mxbl, nextId, cleanmails, iter, now, settings>>

\* DEL <id>
_del(t, id) == StartRow(t, "del", id, "")

\* TOGGLE <id>
_toggle(t, id) == StartRow(t, "toggle", id, "")

\* EDITREASON <id> <reason>
_edit_reason(t, id, reason) == StartRow(t, "editreason", id, reason)

\* RowOp that drops the whole cache with the row it deletes
RowOpFlush(t) ==
    /\ task[t].pc = "row"
    /\ LET id == task[t].id
           there == \E r \in mxbl : r.id = id
       IN  /\ mxbl' = CASE task[t].kind = "del" -> delete(mxbl, id)
                        [] task[t].kind = "toggle" -> toggle(mxbl, id)
                        [] OTHER -> edit_reason(mxbl, id, task[t].reason)
           /\ cleanmails' = IF task[t].kind = "del" /\ there THEN <<>> ELSE cleanmails
           /\ task' = [task EXCEPT ![t].pc = "done",
                                   ![t].reply = IF ~there THEN "no entry"
                                                ELSE IF task[t].kind = "del" THEN "removed"
                                                ELSE IF task[t].kind = "toggle" THEN "toggled"
                                                ELSE "updated"]
    /\ UNCHANGED <<nextId, iter, now, settings>>

\* database.delete / toggle / edit_reason answers; the command replies
RowOp(t) ==
    /\ task[t].pc = "row"
    /\ LET id == task[t].id
           there == \E r \in mxbl : r.id = id
       IN  /\ mxbl' = CASE task[t].kind = "del" -> delete(mxbl, id)
                        [] task[t].kind = "toggle" -> toggle(mxbl, id)
                        [] OTHER -> edit_reason(mxbl, id, task[t].reason)
           /\ task' = [task EXCEPT ![t].pc = "done",
                                   ![t].reply = IF ~there THEN "no entry"
                                                ELSE IF task[t].kind = "del" THEN "removed"
                                                ELSE IF task[t].kind = "toggle" THEN "toggled"
                                                ELSE "updated"]
    /\ UNCHANGED <<nextId, cleanmails, iter, now, settings>>

\* _testpattern answering from the cache when the domain is in it
_testpatternCached(t, text, domain) ==
    /\ Free(t)
    /\ LET parsed == ParsePattern(text)
           tk == [Idle EXCEPT !.kind = "testpat", !.text = text, !.pat = <<parsed.pat>>]
           ck == CheckEnter(tk, domain, tk.pat)
       IN  IF ~parsed.ok
           THEN /\ task' = [task EXCEPT ![t] = [Idle EXCEPT !.kind = "testpat", !.text = text,
                                                        !.pc = "raised", !.reply = "ValueError"]]
                /\ UNCHANGED <<mxbl, nextId, cleanmails, iter, now, settings>>
           ELSE IF CacheContains(cleanmails, domain, now)
           THEN /\ task' = [task EXCEPT ![t] = [tk EXCEPT !.domain = domain, !.pc = "done",
                                                      !.reply = "does not match"]]
                /\ UNCHANGED <<mxbl, nextId, cleanmails, iter, now, settings>>
           ELSE IF CheckOver(ck)
           THEN Conclude(t, ck)
           ELSE /\ task' = [task EXCEPT ![t] = [ck EXCEPT !.pc = "walk"]]
                /\ UNCHANGED <<mxbl, nextId, cleanmails, iter, now, settings>>

\* TESTPAT <pattern> <email|domain>: the ValueError of parse_pattern is not
\* caught by the handler; the check runs against the one pattern
_testpattern(t, text, domain) ==
    /\ Free(t)
    /\ LET parsed == ParsePattern(text)
           tk == [Idle EXCEPT !.kind = "testpat", !.text = text, !.pat = <<parsed.pat>>]
           ck == CheckEnter(tk, domain, tk.pat)
       IN  IF ~parsed.ok
           THEN /\ task' = [task EXCEPT ![t] = [Idle EXCEPT !.kind = "testpat", !.text = text,
                                                        !.pc = "raised", !.reply = "ValueError"]]
                /\ UNCHANGED <<mxbl, nextId, cleanmails, iter, now, settings>>
           ELSE IF CheckOver(ck)
           THEN Conclude(t, ck)
           ELSE /\ task' = [task EXCEPT ![t] = [ck EXCEPT !.pc = "walk"]]
                /\ UNCHANGED <<mxbl, nextId, cleanmails, iter, now, settings>>

\* CACHE DEL <name> and CACHE SHOW: no await, the command replies at once
_showcache(t, subcommand, text) ==
    /\ Free(t)
    /\ LET name == Lower(text)
           tk == [Idle EXCEPT !.kind = "cache", !.text = text, !.domain = name, !.pc = "done",
                              !.seen = Keys(Unexpired(cleanmails, now))]
       IN  IF subcommand = "DEL"
           THEN IF CacheContains(cleanmails, name, now)
                THEN LET st == CacheDel([c |-> cleanmails, its |-> iter], name)
                     IN  /\ cleanmails' = st.c
                         /\ iter' = st.its
                         /\ task' = [task EXCEPT ![t] = [tk EXCEPT !.reply = "removed"]]
                ELSE /\ task' = [task EXCEPT ![t] = [tk EXCEPT !.reply = "not cached"]]
                     /\ UNCHANGED <<cleanmails, iter>>
           ELSE /\ task' = [task EXCEPT ![t] = [tk EXCEPT !.text = <<>>, !.domain = <<>>,
                                                      !.reply = "shown"]]
                /\ UNCHANGED <<cleanmails, iter>>
    /\ UNCHANGED <<mxbl, nextId, now, settings>>

(***************************************************************************)
(* GET, TEST and SET                                                       *)
(***************************************************************************)

\* MxblTable.get: SELECT ... WHERE id = $1, the row in a list, or no row
get(rows, id) == list_all({r \in rows : r.id = id})

\* GET <id>
_get(t, id) ==
    /\ Free(t)
    /\ task' = [task EXCEPT ![t] = [Idle EXCEPT !.kind = "get", !.id = id, !.pc = "get"]]
    /\ UNCHANGED <<mxbl, nextId, cleanmails, iter, now, settings>>

\* database.get answers; GET replies with str(ret), of which text keeps the
\* pattern as displayed, or with "no entry found"
GetReply(t) ==
    /\ task[t].pc = "get"
    /\ LET ret == get(mxbl, task[t].id)
       IN  task' = [task EXCEPT ![t] =
                      IF ret # <<>>
                      THEN [task[t] EXCEPT !.pc = "done", !.reply = "shown",
                                           !.pat = <<ret[1].pattern>>,
                                           !.text = __str__(ret[1].pattern)]
                      ELSE [task[t] EXCEPT !.pc = "done", !.reply = "no entry"]]
    /\ UNCHANGED <<mxbl, nextId, cleanmails, iter, now, settings>>

\* TEST <email|domain> sending every tested domain to the cache
_testmatchCaching(t, domain) ==
    /\ Free(t)
    /\ LET st == CacheSet([c |-> cleanmails, its |-> iter], domain, now)
       IN  /\ cleanmails' = st.c
           /\ iter' = st.its
    /\ task' = [task EXCEPT ![t] =
                  [Idle EXCEPT !.kind = "test", !.pc = "list_all", !.domain = domain]]
    /\ UNCHANGED <<mxbl, nextId, now, settings>>

\* TEST <email|domain>: the check against the rules of the table, with no
\* look at the cache
_testmatch(t, domain) ==
    /\ Free(t)
    /\ task' = [task EXCEPT ![t] =
                  [Idle EXCEPT !.kind = "test", !.pc = "list_all", !.domain = domain]]
    /\ UNCHANGED <<mxbl, nextId, cleanmails, iter, now, settings>>

\* SETTINGS SET <name> <value>: Settings.set_ stores the value and awaits the
\* database
_settings(t, name, value) ==
    /\ Free(t)
    /\ settings' = [settings EXCEPT ![name] = <<value>>]
    /\ task' = [task EXCEPT ![t] = [Idle EXCEPT !.kind = "set", !.pc = "set"]]
    /\ UNCHANGED <<mxbl, nextId, cleanmails, iter, now>>

\* database.set_setting answers; the command replies
SetReply(t) ==
    /\ task[t].pc = "set"
    /\ task' = [task EXCEPT ![t].pc = "done", ![t].reply = "set"]
    /\ UNCHANGED <<mxbl, nextId, cleanmails, iter, now, settings>>

(***************************************************************************)
(* Specifications                                                          *)
(***************************************************************************)

\* a NickServ notice arrives
Notice(t, notices) ==
    \E n \in notices : on_nickserv(t, n[1], n[2])

\* an oper sends a command
Command(t, texts) ==
    \/ \E x \in texts : _add(t, x)
    \/ \E i \in 1..MaxId, x \in texts : _edit_pattern(t, i, x)

\* the steps of a running check; a lookup is answered from the zone (TRUE) or
\* raises (FALSE)
CheckStep(t, outcomes) ==
    \/ ListAll(t)
    \/ \E ok \in outcomes : Resolve(t, ok)
    \/ Hit(t)
    \/ Whois(t)

\* the steps of a running command
CommandStep(t) ==
    \/ SweepResume(t)
    \/ Db(t)

\* the bot starts on any table
Init == InitWith(InitTables)

\* the bot starts on an empty table
InitEmpty == InitWith({{}})

\* notices over a table that does not change, one at a time, with lookups
\* and rule fetches that may raise
Next ==
    \/ Return(1)
    \/ Quiet /\ Notice(1, Notices)
    \/ Quiet /\ CheckStep(1, BOOLEAN)
    \/ Quiet /\ ListAllFails(1)

Spec == Init /\ [][Next]_vars

\* notices and commands, one handler at a time, every lookup answered from
\* the zone, the clock running
NextCache ==
    \/ Return(1)
    \/ Quiet /\ Notice(1, Notices)
    \/ Quiet /\ Command(1, PatternTexts)
    \/ Quiet /\ CheckStep(1, {TRUE})
    \/ Quiet /\ CommandStep(1)
    \/ Quiet /\ Tick

SpecCache == InitEmpty /\ [][NextCache]_vars

\* the domains, tables, ids and reasons of the runs with every command; B is
\* b as a user may spell it
DomBUpper == <<"B">>
AdminDomains == {DomB, DomC, DomBUpper}
AdminTables == {tb \in InitTables : Cardinality(tb) <= 1}
AdminIds == 1..(MaxId + 1)
Reasons == {"spam", "abuse"}

\* an oper sends DEL, TOGGLE, EDITREASON, TESTPAT or CACHE
Admin(t) ==
    \/ \E i \in AdminIds : _del(t, i)
    \/ \E i \in AdminIds : _toggle(t, i)
    \/ \E i \in AdminIds, r \in Reasons : _edit_reason(t, i, r)
    \/ \E x \in PatternTexts, d \in AdminDomains : _testpattern(t, x, d)
    \/ \E sub \in {"DEL", "SHOW"}, d \in AdminDomains : _showcache(t, sub, d)

\* notices and every command, one handler at a time, every lookup answered
\* from the zone, the clock standing
NextAdmin ==
    \/ Return(1)
    \/ Quiet /\ Notice(1, {"register"} \X AdminDomains)
    \/ Quiet /\ Command(1, ConcTexts)
    \/ Quiet /\ Admin(1)
    \/ Quiet /\ CheckStep(1, {TRUE})
    \/ Quiet /\ CommandStep(1)
    \/ Quiet /\ RowOp(1)

SpecAdmin == InitWith(AdminTables) /\ [][NextAdmin]_vars

\* the notices and tables of a burst of registrations
BurstNotices == {"register"} \X {DomA, DomB}
BurstTables == {tb \in InitTables : Cardinality(tb) = 1}

\* a burst: every task handles one notice, the handlers interleave at their
\* awaits and keep their locals once they have ended
NextBurst ==
    \/ \E t \in Tasks : Notice(t, BurstNotices)
    \/ \E t \in Tasks : CheckStep(t, {TRUE})

SpecBurst == InitWith(BurstTables) /\ [][NextBurst]_vars

\* every text of up to MaxText characters an oper can give as a pattern
Alphabet == {"%", "/", "0", "1", ".", "a"}
ParseTexts == UNION {[1..k -> Alphabet] : k \in 1..MaxText}

\* the texts with a "/" given to ADD: a network, and one with host bits set
SlashTexts == { <<"1", ".", "0", "/", "1">>, <<"1", ".", "1", "/", "1">> }

\* TESTPAT of any text against a name with no records, ADD of the texts
\* with a "/", one handler at a time
NextParse ==
    \/ Return(1)
    \/ Quiet /\ Free(1) /\ \E x \in ParseTexts : _testpattern(1, x, DomC)
    \/ Quiet /\ \E x \in SlashTexts : _add(1, x)
    \/ Quiet /\ Resolve(1, TRUE)
    \/ Quiet /\ Db(1)

SpecParse == InitEmpty /\ [][NextParse]_vars

\* the tables of one rule, parsed from any text that is a pattern
ShowTables ==
    { {Row(1, ParsePattern(x).pat, TRUE, 0)} : x \in {y \in ParseTexts : ParsePattern(y).ok} }
ShowIds == {1, 2}

\* GET of a rule and of no rule, one handler at a time
NextShow ==
    \/ Return(1)
    \/ Quiet /\ \E i \in ShowIds : _get(1, i)
    \/ Quiet /\ GetReply(1)

SpecShow == InitWith(ShowTables) /\ [][NextShow]_vars

\* the strings of up to n characters over an alphabet, the empty one included
Strings(alphabet, n) == UNION {[1..k -> alphabet] : k \in 0..n}

\* names as a resolver or a notice can deliver them, and the texts of
\* Domain, Glob and Regex patterns over them; m and m. are the exchange of a
NameCands == Strings({"a", "A", "."}, MaxCand) \ {<<>>}
DomainTexts == Strings({"a", "A", ".", "*", "?"}, MaxCand) \ {<<>>}
GlobTexts ==
    {<<"%">> \o x \o <<"%">> : x \in Strings({"a", "A", ".", "*", "?"}, MaxCand)}
        \cup { <<"%", "m", "%">>, <<"%", "m", ".", "%">>, <<"%", "*", "m", "%">> }
RegexTexts == {<<"/">> \o x \o <<"/">> : x \in Strings({"a", "A", "."}, MaxCand)}
NameTexts == DomainTexts \cup GlobTexts \cup RegexTexts

\* addresses, well formed or not, and the texts of Cidr and IpAddr patterns
AddrCands == Strings({"0", "1", ".", ":", "a"}, MaxCand) \ {<<>>}
AddrTexts ==
    {x \in Strings({"0", "1", ".", ":"}, 3) : IsIp(x)}
        \cup {y \in {x \o <<"/", p>> : x \in Strings({"0", "1", ".", ":"}, 3), p \in {"0", "1", "2"}} :
                IsNet(y)}

\* TESTPAT of a pattern against a candidate, one handler at a time
NextMatch ==
    \/ Return(1)
    \/ Quiet /\ Free(1) /\ \E x \in NameTexts, c \in NameCands : _testpattern(1, x, c)
    \/ Quiet /\ Free(1) /\ \E x \in AddrTexts, c \in AddrCands : _testpattern(1, x, c)
    \/ Quiet /\ Resolve(1, TRUE)

SpecMatch == InitEmpty /\ [][NextMatch]_vars

\* the values of pause an oper sets or the database holds, and the settings
\* the bot can load: pause at one of these values, or not set at all
PauseValues == {"0", "1", "00"}
LoadedSettings == {[pause |-> <<v>>] : v \in PauseValues} \cup {[pause |-> <<>>]}

\* notices, TEST and SETTINGS SET pause, one handler at a time, every lookup
\* answered from the zone
NextOper ==
    \/ Return(1)
    \/ Quiet /\ Notice(1, Notices)
    \/ Quiet /\ \E d \in Domains : _testmatch(1, d)
    \/ Quiet /\ \E v \in PauseValues : _settings(1, "pause", v)
    \/ Quiet /\ CheckStep(1, {TRUE})
    \/ Quiet /\ SetReply(1)

SpecOper == InitLoaded(AdminTables, LoadedSettings) /\ [][NextOper]_vars

\* the unlinked links the iterators drag behind them stay within the bound
PathBound == \A t \in Tasks : Len(iter'[t].path) <= MaxPath

\* the handlers of different lines interleave at their awaits
NextConc ==
    \/ \E t \in Tasks : Return(t)
    \/ Quiet /\ \E t \in Tasks : Notice(t, ConcNotices)
    \/ Quiet /\ \E t \in Tasks : Command(t, ConcTexts)
    \/ Quiet /\ (\E t \in Tasks : CheckStep(t, {TRUE})) /\ PathBound
    \/ Quiet /\ (\E t \in Tasks : CommandStep(t)) /\ PathBound
    \/ Quiet /\ Tick

SpecConc == InitEmpty /\ [][NextConc]_vars

\* the handlers of notices, of ADD and EDITPATTERN and of CACHE DEL
\* interleave at their awaits, the clock standing: no entry expires
NextRace ==
    \/ \E t \in Tasks : Return(t)
    \/ Quiet /\ \E t \in Tasks : Notice(t, ConcNotices)
    \/ Quiet /\ \E t \in Tasks : Command(t, ConcTexts)
    \/ Quiet /\ \E t \in Tasks, d \in {DomB, DomC} : _showcache(t, "DEL", d)
    \/ Quiet /\ (\E t \in Tasks : CheckStep(t, {TRUE})) /\ PathBound
    \/ Quiet /\ (\E t \in Tasks : CommandStep(t)) /\ PathBound

SpecRace == InitEmpty /\ [][NextRace]_vars

TypeOK ==
    /\ now \in 0..MaxTime
    /\ \A r \in mxbl : r.id < nextId /\ r.hits \in 0..MaxHits
    /\ Len(cleanmails) <= cache_size
    /\ \A t \in Tasks : iter[t].live => iter[t].cur \in Keys(cleanmails)
    /\ \A t \in Tasks : iter[t].rejoin # ROOT => iter[t].rejoin \in Keys(cleanmails)

(***************************************************************************)
(* Properties                                                              *)
(***************************************************************************)

PatOf(item) == IF IsEntry(item) THEN item.pattern ELSE item

\* the first item of the list, in list order, that matches the candidate
FirstMatch(patterns, c) ==
    LET idx == {i \in 1..Len(patterns) : PatEq(PatOf(patterns[i]), c)}
    IN  IF idx = {} THEN <<>>
        ELSE <<patterns[CHOOSE i \in idx : \A j \in idx : i <= j]>>

\* the task is in a check or at its end, its locals in place
InCheck(t) == task[t].pc \in {"walk", "hit", "whois", "sweep_resume", "done"} /\ task[t].tested # <<>>

\* the position of a lookup of (name, ty) pushed by an MX record, 0 if none
MxLookupAt(lk, name, ty) ==
    LET idx == {i \in 1..Len(lk) : lk[i].name = name /\ lk[i].ty = ty /\ lk[i].org = "mx"}
    IN  IF idx = {} THEN 0 ELSE CHOOSE i \in idx : \A j \in idx : i <= j

\* the exchanges of the MX answer a walk got for its seed
Exchanges(lk) ==
    IF lk # <<>> /\ lk[1].ty = "MX" /\ lk[1].ok
    THEN {Zone(lk[1].name, "MX")[i].value : i \in 1..Len(Zone(lk[1].name, "MX"))}
    ELSE {}

\* C1: once the seed's MX answer names an exchange h and nothing has matched,
\* (h, A) and then (h, AAAA) are looked up before the seed's own A and AAAA;
\* a walk that ends on a match found through an exchange still has the seed's
\* (s, A) and (s, AAAA) in its queue
C1_FrontInsertion ==
    \A t \in Tasks : InCheck(t) =>
        LET lk == task[t].lookups
            q == task[t].queue
        IN  /\ \A i \in 1..Len(lk) :
                  (lk[i].org = "seed" /\ lk[i].ty \in {"A", "AAAA"}) =>
                      \A h \in Exchanges(lk) :
                          /\ 0 < MxLookupAt(lk, h, "A")
                          /\ MxLookupAt(lk, h, "A") < MxLookupAt(lk, h, "AAAA")
                          /\ MxLookupAt(lk, h, "AAAA") < i
            /\ (task[t].found # <<>> /\ lk # <<>> /\ Last(lk).org = "mx") =>
                  /\ Len(q) >= 2
                  /\ q[Len(q) - 1] = Item(task[t].domain, "A", "seed")
                  /\ q[Len(q)] = Item(task[t].domain, "AAAA", "seed")
                  /\ \A i \in 1..Len(lk) : ~(lk[i].org = "seed" /\ lk[i].ty \in {"A", "AAAA"})

\* C1 witness: the only rule matches only the AAAA address of the exchange m.,
\* and the walk of a has matched it with (a, A) and (a, AAAA) still queued
C1_Witness ==
    /\ task[1].domain = DomA
    /\ Len(task[1].patterns) = 1
    /\ task[1].found # <<>>
    /\ PatOf(task[1].found[1]) = Pattern("IpAddr", <<"1", ":", "0">>)
    /\ task[1].lookups # <<>>
    /\ Last(task[1].lookups).name = MxM
    /\ Last(task[1].lookups).ty = "AAAA"
    /\ Len(task[1].queue) = 2

RECURSIVE Observed(_)
\* the candidates the answers of the lookups hold, in the order they came
Observed(lk) ==
    IF lk = <<>> THEN <<>>
    ELSE LET resp == IF lk[1].ok THEN Zone(lk[1].name, lk[1].ty) ELSE <<>>
         IN  [i \in 1..Len(resp) |-> resp[i].value] \o Observed(Tail(lk))

\* the candidates were tested in the order they were observed, none before the
\* last one matched, and found is the first rule of the list matching the last
C2_FirstMatchState ==
    \A t \in Tasks : InCheck(t) =>
        LET tk == task[t]
            all == <<tk.domain>> \o Observed(tk.lookups)
        IN  /\ Len(tk.tested) <= Len(all)
            /\ tk.tested = SubSeq(all, 1, Len(tk.tested))
            /\ tk.found = <<>> => tk.tested = all
            /\ \A i \in 1..(Len(tk.tested) - 1) : FirstMatch(tk.patterns, tk.tested[i]) = <<>>
            /\ tk.found = FirstMatch(tk.patterns, Last(tk.tested))

\* after a match the check looks nothing up and tests nothing
C2_StopsStep ==
    \A t \in Tasks :
        (InCheck(t) /\ task[t].found # <<>>) =>
            \/ task'[t].pc = "idle"
            \/ /\ task'[t].lookups = task[t].lookups
               /\ task'[t].tested = task[t].tested
               /\ task'[t].found = task[t].found

\* C2: first match wins and stops the walk: candidates are tested in the order
\* observed, each against the rules in list order; the check returns the first
\* rule matching the first matching candidate and does nothing more
C2_FirstMatchWins == [](C2_FirstMatchState) /\ [][C2_StopsStep]_vars

\* C2 witness: two rules match the candidate the walk stopped on, a later
\* candidate also has a match, and lookups are left in the queue
C2_Witness ==
    /\ task[1].pc = "done"
    /\ task[1].found # <<>>
    /\ Len(task[1].tested) >= 2
    /\ task[1].queue # <<>>
    /\ Cardinality({i \in 1..Len(task[1].patterns) :
                      PatEq(PatOf(task[1].patterns[i]), Last(task[1].tested))}) = 2

\* C7: if the checked domain itself matches a rule of the list, the check
\* returns the first such rule and issues no DNS lookup
C7_DirectMatch ==
    \A t \in Tasks :
        (InCheck(t) /\ IsLive(task[t]) /\ FirstMatch(task[t].patterns, task[t].domain) # <<>>) =>
            /\ task[t].found = FirstMatch(task[t].patterns, task[t].domain)
            /\ task[t].lookups = <<>>
            /\ task[t].queue = <<>>

\* C7 witness: a check ended on a direct match although a later candidate of
\* the chain would have matched another rule
C7_Witness ==
    /\ task[1].pc = "done"
    /\ task[1].reply = "matched"
    /\ task[1].domain = DomA
    /\ task[1].tested = <<DomA>>
    /\ task[1].lookups = <<>>
    /\ \E i \in 1..Len(task[1].patterns) : PatEq(PatOf(task[1].patterns[i]), MxM)

\* C8: the list a check uses holds every row, active rows before warn-only
\* rows and ascending id within each group; when an active and a warn-only
\* rule both match the candidate, the check returns the active one
C8_ActiveBeforeWarn ==
    \A t \in Tasks : (InCheck(t) /\ IsLive(task[t]) /\ task[t].fetches = 1) =>
        LET ps == task[t].patterns
        IN  /\ {ps[i] : i \in 1..Len(ps)} = {Entry(r) : r \in mxbl}
            /\ Len(ps) = Cardinality(mxbl)
            /\ \A i, j \in 1..Len(ps) : i < j =>
                  \/ ps[i].active /\ ~ps[j].active
                  \/ ps[i].active = ps[j].active /\ ps[i].id < ps[j].id
            /\ (task[t].found # <<>> /\
                \E i \in 1..Len(ps) : ps[i].active /\ PatEq(ps[i].pattern, Last(task[t].tested)))
                  => task[t].found[1].active

\* C8 witness: the check returned an active rule although a warn-only rule with
\* a lower id matches the same candidate
C8_Witness ==
    /\ task[1].pc = "done"
    /\ task[1].found # <<>>
    /\ task[1].found[1].active
    /\ \E i \in 1..Len(task[1].patterns) :
          /\ ~task[1].patterns[i].active
          /\ task[1].patterns[i].id < task[1].found[1].id
          /\ PatEq(task[1].patterns[i].pattern, Last(task[1].tested))

\* a lookup that raised added no candidate and took only its own item off the
\* queue; the walk goes on with the next item or ends with no match
C9_FailStep ==
    \A t \in Tasks :
        (/\ task[t].pc = "walk"
         /\ Len(task'[t].lookups) = Len(task[t].lookups) + 1
         /\ ~Last(task'[t].lookups).ok) =>
            /\ Last(task'[t].lookups).name = task[t].queue[1].name
            /\ Last(task'[t].lookups).ty = task[t].queue[1].ty
            /\ task'[t].tested = task[t].tested
            /\ task'[t].found = <<>>
            /\ task'[t].queue = Tail(task[t].queue)
            /\ IF Tail(task[t].queue) # <<>> THEN task'[t].pc = "walk"
               ELSE IF IsLive(task[t]) THEN task'[t].pc = "done" /\ task'[t].reply = "clean"
               ELSE task'[t].pc = "sweep_resume"

\* a walk goes on while items are queued and nothing matched; a check over
\* without a match has looked up every item; no check that has its rule
\* list ends in an exception
C9_WalkState ==
    \A t \in Tasks :
        /\ task[t].pc = "walk" => task[t].queue # <<>> /\ task[t].found = <<>>
        /\ (InCheck(t) /\ task[t].pc # "walk" /\ task[t].found = <<>>) => task[t].queue = <<>>
        /\ IsLive(task[t]) /\ task[t].fetches > 0 => task[t].pc # "raised"
        /\ (IsLive(task[t]) /\ task[t].pc = "done") => task[t].reply \in {"clean", "matched", "cached"}

\* C9: a failed DNS lookup contributes no candidates and does not end the walk:
\* the items queued behind it are still looked up and the check ends Matched
\* or Clean, never in an error
C9_FailureSwallowed == [](C9_WalkState) /\ [][C9_FailStep]_vars

\* C9 witness: a lookup raised although the zone has an answer for it, and
\* the walk went on to match on a later item
C9_Witness ==
    /\ task[1].pc = "done"
    /\ task[1].reply = "matched"
    /\ \E i \in 1..(Len(task[1].lookups) - 1) :
          /\ ~task[1].lookups[i].ok
          /\ Zone(task[1].lookups[i].name, task[1].lookups[i].ty) # <<>>

\* the hits column of the row with this id, 0 when there is no such row
HitsOf(rows, id) ==
    IF \E r \in rows : r.id = id THEN (CHOOSE r \in rows : r.id = id).hits ELSE 0

\* a notice handler that ended on a match asked for one hit, of the matched
\* rule; one that ended clean or on the cache asked for none
C10_HitState ==
    \A t \in Tasks : (IsLive(task[t]) /\ task[t].pc = "done") =>
        /\ task[t].reply = "matched" =>
              task[t].found # <<>> /\ task[t].hits = <<task[t].found[1].id>>
        /\ task[t].reply \in {"clean", "cached"} =>
              task[t].found = <<>> /\ task[t].hits = <<>>

\* the hits of a row change only when a handler gets its database.hit
\* answered, and then by one, on the row it matched
C10_HitStep ==
    \A id \in 1..(MaxId + InitRules) :
        HitsOf(mxbl', id) # HitsOf(mxbl, id) =>
            /\ HitsOf(mxbl', id) = HitsOf(mxbl, id) + 1
            /\ \E t \in Tasks :
                  /\ IsLive(task[t]) /\ task[t].pc = "hit" /\ task'[t].pc = "whois"
                  /\ task[t].found[1].id = id

\* a check with a match always goes through database.hit before it ends
C10_MatchStep ==
    \A t \in Tasks :
        (IsLive(task[t]) /\ task'[t].pc = "whois" /\ task[t].pc # "whois") =>
            /\ task[t].pc = "hit"
            /\ HitsOf(mxbl', task[t].found[1].id) = HitsOf(mxbl, task[t].found[1].id) + 1

\* C10: every live check that ends Matched(r) requests exactly one hit
\* increment for r, active or warn-only; a check that ends Clean or is answered
\* from the cache requests none
C10_OneHitPerMatch == [](C10_HitState) /\ [][C10_HitStep /\ C10_MatchStep]_vars

\* C10 witness: a check ended on a warn-only rule and its hit was counted
C10_Witness ==
    /\ task[1].pc = "done"
    /\ task[1].reply = "matched"
    /\ ~task[1].found[1].active
    /\ task[1].hits = <<task[1].found[1].id>>
    /\ HitsOf(mxbl, task[1].found[1].id) = 2


(***************************************************************************)
(* The clean-domain cache and the rule set                                 *)
(***************************************************************************)

\* the values of the records the zone holds for (name, ty)
Answers(name, ty) == {Zone(name, ty)[i].value : i \in 1..Len(Zone(name, ty))}

\* every name and address on the chain of a domain: the domain, its
\* exchanges, and the addresses of the domain and of its exchanges
Candidates(d) ==
    LET names == {d} \cup Answers(d, "MX")
    IN  names \cup UNION {Answers(n, ty) : n \in names, ty \in {"A", "AAAA"}}

\* the pattern matches the domain directly or through its chain
ChainMatches(pat, d) == \E c \in Candidates(d) : PatEq(pat, c)

\* the cache holds an entry of d whose time to live has not elapsed
Fresh(d) ==
    \E i \in 1..Len(cleanmails) :
        cleanmails[i].key = d /\ now < cleanmails[i].expires

\* C3: with the zone fixed and every lookup answered from it, no unexpired
\* entry of the cache names a domain that a rule now in the table matches,
\* directly or through its chain, however live checks, ADD, EDITPATTERN and
\* their sweeps interleave
C3_CacheSound ==
    \A d \in Domains : \A r \in mxbl :
        Fresh(d) => ~ChainMatches(r.pattern, d)

\* the task has run ADD or EDITPATTERN to its end: the sweep is over and the
\* table is written
Swept(t) ==
    /\ IsSweep(task[t])
    /\ task[t].pc = "done"
    /\ task[t].reply \in {"added", "updated"}

\* at the end of ADD or EDITPATTERN: of the domains the cache held when the
\* command came, those the new pattern matches miss, the others are still in
C4_SweptState ==
    \A t \in Tasks : Swept(t) =>
        \A d \in task[t].seen :
            IF ChainMatches(task[t].pat[1], d)
            THEN ~Fresh(d)
            ELSE d \in Keys(cleanmails)

\* a step of the command changes the cache only by unlinking the entry of the
\* domain just checked, and only when the new pattern matches that domain
C4_SweepStep ==
    \A t \in Tasks : IsSweep(task[t]) /\ task[t].pc \notin {"done", "raised"} =>
        \/ cleanmails' = cleanmails
        \/ /\ task[t].pc = "sweep_resume"
           /\ ChainMatches(task[t].pat[1], task[t].domain)
           /\ cleanmails' = Without(cleanmails, task[t].domain)

\* C4: when ADD or EDITPATTERN runs with nothing interleaved, every cached
\* domain the new pattern matches, directly or through its chain, is evicted
\* (a later lookup misses) and every other cached domain stays in the cache,
\* its entry untouched
C4_TargetedInvalidation == [](C4_SweptState) /\ [][C4_SweepStep]_vars

\* C4 witness: ADD of a network swept a cache of two domains, evicted the one
\* with an address in the network and kept the other
C4_Witness ==
    /\ Swept(1)
    /\ task[1].kind = "add"
    /\ task[1].pat[1].ty = "Cidr"
    /\ task[1].seen = {DomA, DomC}
    /\ ChainMatches(task[1].pat[1], DomA)
    /\ ~PatEq(task[1].pat[1], DomA)
    /\ ~ChainMatches(task[1].pat[1], DomC)
    /\ Keys(cleanmails) = {DomC}
    /\ Fresh(DomC)

\* a live check that ends Clean leaves an entry of its domain that lives for
\* cache_ttl from now
C5_InsertStep ==
    \A t \in Tasks :
        IsLive(task[t]) /\ task[t].pc # "done" /\ task'[t].pc = "done"
                        /\ task'[t].reply = "clean" =>
            \E i \in 1..Len(cleanmails') :
                /\ cleanmails'[i].key = task'[t].domain
                /\ cleanmails'[i].expires = now + cache_ttl

\* a live check that starts while the entry of its domain lives returns at
\* once; one that starts when the entry has expired, or is gone, asks for the
\* rules
C5_StartStep ==
    \A t \in Tasks : Free(t) /\ IsLive(task'[t]) =>
        IF Fresh(task'[t].domain)
        THEN /\ task'[t].pc = "done"
             /\ task'[t].reply = "cached"
             /\ task'[t].lookups = <<>>
             /\ task'[t].fetches = 0
        ELSE task'[t].pc = "list_all"

\* a live check not answered from the cache has fetched the rules once, and
\* it ends with no lookup only on a rule that matches the domain itself
C5_CheckedState ==
    \A t \in Tasks : IsLive(task[t]) =>
        /\ task[t].reply = "cached" => task[t].lookups = <<>> /\ task[t].fetches = 0
        /\ task[t].pc \in {"walk", "hit", "whois"} => task[t].fetches = 1
        /\ task[t].pc = "done" /\ task[t].reply # "cached" => task[t].fetches = 1
        /\ task[t].pc = "done" /\ task[t].reply = "clean" =>
              /\ Len(task[t].lookups) >= 3
              /\ \A ty \in {"MX", "A", "AAAA"} : \E i \in 1..Len(task[t].lookups) :
                    task[t].lookups[i].name = task[t].domain /\ task[t].lookups[i].ty = ty
        /\ task[t].pc \in {"hit", "whois", "done"} /\ task[t].found # <<>>
                /\ task[t].lookups = <<>> =>
              PatEq(PatOf(task[t].found[1]), task[t].domain)

Links(c) == {c[i] : i \in 1..Len(c)}

\* a link enters the cache only in the step that ends a live check Clean:
\* nothing matched the domain itself, the queue is empty, every name and
\* address of the chain was tested and none matched a rule of the snapshot
C6_InsertStep ==
    \A l \in Links(cleanmails') \ Links(cleanmails) :
        \E t \in Tasks :
            /\ IsLive(task[t])
            /\ task[t].pc \in {"list_all", "walk"}
            /\ task'[t].pc = "done"
            /\ task'[t].reply = "clean"
            /\ task'[t].domain = l.key
            /\ task'[t].found = <<>>
            /\ task'[t].queue = <<>>
            /\ Candidates(l.key) = {task'[t].tested[i] : i \in 1..Len(task'[t].tested)}
            /\ \A c \in Candidates(l.key) : \A i \in 1..Len(task'[t].patterns) :
                  ~PatEq(PatOf(task'[t].patterns[i]), c)

\* no step of a live check that has a match changes the cache
C6_MatchedStep ==
    \A t \in Tasks : IsLive(task'[t]) /\ task'[t].found # <<>> =>
        cleanmails' = cleanmails

\* a check that ended Matched has left no entry of its domain
C6_MatchedState ==
    \A t \in Tasks :
        IsLive(task[t]) /\ task[t].pc = "done" /\ task[t].reply = "matched" =>
            ~Fresh(task[t].domain)

\* C6: a domain enters the cache only by a live check whose direct test and
\* complete walk found no match; a check that ends Matched never inserts its
\* domain
C6_OnlyCleanCached ==
    [](C6_MatchedState) /\ [][C6_InsertStep /\ C6_MatchedStep]_vars

\* C6 witness: with a rule in the table, one domain was checked Clean and
\* cached, and a check of another domain ended Matched and left no entry
C6_Witness ==
    /\ task[1].pc = "done"
    /\ task[1].reply = "matched"
    /\ task[1].lookups # <<>>
    /\ task[1].domain \notin Keys(cleanmails)
    /\ \E d \in Domains : Fresh(d) /\ \A r \in mxbl : ~ChainMatches(r.pattern, d)

(***************************************************************************)
(* Failures, frames and resources                                          *)
(***************************************************************************)

\* a live check whose rule fetch raised is over, with the exception in the
\* hands of line_read: no verdict, no lookup, no hit, nothing sent, and its
\* domain not in the cache
C12_RaisedState ==
    \A t \in Tasks : IsLive(task[t]) /\ task[t].reply = "DbError" =>
        /\ task[t].pc = "raised"
        /\ task[t].fetches = 0
        /\ task[t].lookups = <<>>
        /\ task[t].hits = <<>>
        /\ task[t].sent = <<>>
        /\ ~Fresh(task[t].domain)

\* a live check that holds no rule list is waiting for it, was answered from
\* the cache, or has raised: it never walks and never ends Clean or Matched
C12_NoListState ==
    \A t \in Tasks : IsLive(task[t]) /\ task[t].fetches = 0 =>
        \/ task[t].pc = "list_all"
        \/ task[t].pc = "done" /\ task[t].reply = "cached"
        \/ task[t].pc = "raised" /\ task[t].reply = "DbError"

\* the step in which the fetch raises, and the return that follows, leave the
\* cache and the table as they are
C12_RaiseStep ==
    \A t \in Tasks :
        (task'[t].reply = "DbError" \/ task[t].reply = "DbError") =>
            cleanmails' = cleanmails /\ mxbl' = mxbl

\* C12: when the rule fetch of a live check fails, the check ends in an
\* error its caller sees: it reports no Clean, inserts nothing into the cache
\* and issues no lookup
C12_FetchFailureObservable ==
    [](C12_RaisedState /\ C12_NoListState) /\ [][C12_RaiseStep]_vars

\* C12 witness: with one domain cached by an earlier check, the rule fetch of
\* the check of another domain raised
C12_Witness ==
    /\ task[1].pc = "raised"
    /\ task[1].reply = "DbError"
    /\ cleanmails # <<>>
    /\ task[1].domain \notin Keys(cleanmails)

\* the MX records the seed's MX lookup returned to the walk: m
SeedMx(tk) ==
    IF tk.lookups # <<>> /\ tk.lookups[1].ty = "MX" /\ tk.lookups[1].ok
    THEN Len(Zone(tk.lookups[1].name, "MX"))
    ELSE 0

\* in a walk the only MX lookup is the first one, of the seed; what is done
\* and what is still queued never exceeds 3 + 2m; a check that has left the
\* walk has a match or an empty queue
C15_WalkState ==
    \A t \in Tasks : task[t].tested # <<>> =>
        /\ \A i \in 1..Len(task[t].lookups) :
              task[t].lookups[i].ty = "MX" =>
                  i = 1 /\ task[t].lookups[i].name = task[t].domain
        /\ \A i \in 1..Len(task[t].queue) :
              task[t].queue[i].ty = "MX" =>
                  i = 1 /\ task[t].lookups = <<>> /\ task[t].queue[i].name = task[t].domain
        /\ Len(task[t].lookups) + Len(task[t].queue) <= 3 + 2 * SeedMx(task[t])
        /\ Len(task[t].lookups) <= 3 + 2 * SeedMx(task[t])
        /\ task[t].pc # "walk" => task[t].found # <<>> \/ task[t].queue = <<>>

\* every turn of the walk is one more lookup; the queue grows only on the
\* seed's MX answer, by two items per record seen, and shrinks by one otherwise
C15_WalkStep ==
    \A t \in Tasks : task[t].pc = "walk" /\ task'[t] # task[t] =>
        /\ Len(task'[t].lookups) = Len(task[t].lookups) + 1
        /\ IF task[t].queue[1].ty = "MX"
           THEN Len(task'[t].queue) <= Len(task[t].queue) - 1 + 2 * SeedMx(task'[t])
           ELSE Len(task'[t].queue) = Len(task[t].queue) - 1

\* C15: every walk terminates: only the seed is asked for MX, the queue
\* grows by two items per MX record of the seed, a walk issues at most 3 + 2m
\* lookups and ends Matched or, its queue exhausted, Clean
C15_WalkTerminates == [](C15_WalkState) /\ [][C15_WalkStep]_vars

\* C15 witness: a walk over a seed with two MX records ended Clean after
\* 3 + 2 * 2 lookups
C15_Witness ==
    /\ task[1].pc = "done"
    /\ task[1].reply = "clean"
    /\ SeedMx(task[1]) = 2
    /\ Len(task[1].lookups) = 7

\* a live check ends Clean only when no rule of its snapshot, active or
\* warn-only, matches anything it tested; one that matched a warn-only rule
\* counted the hit and sent nothing to NickServ
C17_WarnState ==
    \A t \in Tasks : IsLive(task[t]) =>
        /\ task[t].pc = "done" /\ task[t].reply = "clean" =>
              \A i \in 1..Len(task[t].patterns) : \A j \in 1..Len(task[t].tested) :
                  ~PatEq(task[t].patterns[i].pattern, task[t].tested[j])
        /\ task[t].pc \in {"hit", "whois", "done"} /\ task[t].found # <<>> =>
              task[t].found = FirstMatch(task[t].patterns, Last(task[t].tested))
        /\ task[t].found # <<>> /\ ~task[t].found[1].active =>
              task[t].sent = <<>>

\* C17: warn-only rules match like active rules, and a live check that
\* matched a warn-only rule sends no BADMAIL ADD, FDROP or FREEZE
C17_WarnOnlyNoEnforcement == C17_WarnState

\* C17 witness: a REGISTER check matched a warn-only rule through an address
\* of the chain, counted the hit and sent nothing
C17_Witness ==
    /\ task[1].pc = "done"
    /\ task[1].kind = "register"
    /\ task[1].reply = "matched"
    /\ ~task[1].found[1].active
    /\ task[1].lookups # <<>>
    /\ task[1].hits = <<task[1].found[1].id>>
    /\ task[1].sent = <<>>

\* the step after the hit: on an active rule, enforcement not paused,
\* REGISTER sends BADMAIL ADD then FDROP, VERIFY:EMAILCHG sends BADMAIL ADD
\* then FREEZE
C19_EnforceStep ==
    \A t \in Tasks :
        task[t].pc = "hit" /\ task'[t].pc = "whois"
                /\ task[t].found[1].active /\ settings.pause = <<"0">> =>
            /\ Len(task'[t].sent) = 2
            /\ task'[t].sent[1] =
                  [cmd |-> "BADMAIL ADD", mask |-> task[t].domain, id |-> task[t].found[1].id]
            /\ task[t].kind = "register" =>
                  task'[t].sent[2].cmd = "FDROP"
            /\ task[t].kind = "emailchg" =>
                  /\ task'[t].sent[2].cmd = "FREEZE"
                  /\ task'[t].sent[2].mask = task[t].domain

\* nothing is sent before the hit, nothing is added after it, and an
\* email change never sends FDROP
C19_SentState ==
    \A t \in Tasks : IsLive(task[t]) =>
        /\ task[t].pc \in {"list_all", "walk", "hit"} => task[t].sent = <<>>
        /\ Len(task[t].sent) \in {0, 2}
        /\ task[t].kind = "emailchg" =>
              \A i \in 1..Len(task[t].sent) : task[t].sent[i].cmd # "FDROP"

\* the messages of a check change in no other step
C19_KeepStep ==
    \A t \in Tasks :
        ~(task[t].pc = "hit" /\ task'[t].pc = "whois") /\ task'[t].pc # "idle" =>
            task'[t].sent = task[t].sent

\* C19: a live check that matches an active rule while enforcement is not
\* paused sends BADMAIL ADD for *@domain and then FDROP on REGISTER, BADMAIL
\* ADD and then FREEZE, never FDROP, on VERIFY:EMAILCHG
C19_EnforcementByEvent ==
    [](C19_SentState) /\ [][C19_EnforceStep /\ C19_KeepStep]_vars

\* C19 witness: an email change matched an active rule and ended with BADMAIL
\* ADD and FREEZE sent
C19_Witness ==
    /\ task[1].pc = "done"
    /\ task[1].kind = "emailchg"
    /\ task[1].found[1].active
    /\ Len(task[1].sent) = 2
    /\ task[1].sent[2].cmd = "FREEZE"

\* the step that ends a live check Clean: the expired entries go, then, if
\* the domain is new and the cache full, the oldest ones, and the domain is
\* linked last
C16_InsertStep ==
    \A t \in Tasks :
        IsLive(task[t]) /\ task[t].pc # "done" /\ task'[t].pc = "done"
                        /\ task'[t].reply = "clean" =>
            LET d == task'[t].domain
                live == Unexpired(cleanmails, now)
                kept == IF d \in Keys(live)
                        THEN SelectSeq(live, LAMBDA l : l.key # d)
                        ELSE IF Len(live) >= cache_size
                        THEN SubSeq(live, Len(live) - cache_size + 2, Len(live))
                        ELSE live
            IN  cleanmails' = kept \o <<[key |-> d, expires |-> now + cache_ttl]>>

\* no other step makes the cache longer
C16_OtherStep ==
    (\A t \in Tasks : ~(task'[t].pc = "done" /\ task'[t].reply = "clean"
                        /\ task[t].pc # "done")) =>
        Len(cleanmails') <= Len(cleanmails)

\* C16: the cache never holds more than cache_size entries; an insertion
\* first drops the entries that have expired and then, if the cache is still
\* full, the oldest entry
C16_CacheBounded ==
    [](Len(cleanmails) <= cache_size) /\ [][C16_InsertStep /\ C16_OtherStep]_vars

\* C16 witness: a check ended Clean on a full cache of unexpired entries; the
\* older one is gone, the newer one and the new domain are in
C16_Witness ==
    /\ task[1].pc = "done"
    /\ task[1].reply = "clean"
    /\ Cardinality(task[1].seen) = cache_size
    /\ Len(cleanmails) = cache_size
    /\ now < cleanmails[1].expires
    /\ cleanmails[1].expires < cleanmails[2].expires
    /\ cleanmails[1].key \in task[1].seen
    /\ cleanmails[2].key = task[1].domain

\* the task runs DEL, TOGGLE or EDITREASON
IsRowCommand(tk) == tk.kind \in {"del", "toggle", "editreason"}

\* no step of DEL, TOGGLE or EDITREASON touches the cache or an iterator
\* over it
C13_FrameStep ==
    \A t \in Tasks : IsRowCommand(task[t]) \/ IsRowCommand(task'[t]) =>
        cleanmails' = cleanmails /\ iter' = iter

\* DEL, TOGGLE and EDITREASON test no domain: no fetch, no lookup
C13_NoRetestState ==
    \A t \in Tasks : IsRowCommand(task[t]) =>
        /\ task[t].tested = <<>>
        /\ task[t].lookups = <<>>
        /\ task[t].fetches = 0

\* C13: DEL, TOGGLE and EDITREASON leave the cache as it is: no entry is
\* added, evicted or re-tested
C13_RowCommandsKeepCache == [](C13_NoRetestState) /\ [][C13_FrameStep]_vars

\* C13 witness: DEL removed the only rule while the cache held a domain
C13_Witness ==
    /\ task[1].pc = "done"
    /\ task[1].kind = "del"
    /\ task[1].reply = "removed"
    /\ mxbl = {}
    /\ Fresh(DomC)

\* the task runs a check against one given pattern: TESTPAT, or the re-check
\* of a sweep
HasExplicitPattern(tk) == tk.kind = "testpat" \/ IsSweep(tk)

\* a check against a given pattern tests that pattern alone, fetched no rule
\* list and counted no hit; TESTPAT ends on what the pattern says of the
\* domain and its chain, whether the domain is cached or not
C14_ExplicitState ==
    \A t \in Tasks :
        /\ HasExplicitPattern(task[t]) /\ task[t].tested # <<>> =>
              /\ task[t].patterns = task[t].pat
              /\ Len(task[t].patterns) = 1
              /\ task[t].fetches = 0
              /\ task[t].hits = <<>>
              /\ task[t].sent = <<>>
        /\ task[t].kind = "testpat" /\ task[t].pc = "done" =>
              /\ task[t].reply = "matches" <=> ChainMatches(task[t].pat[1], task[t].domain)
              /\ task[t].lookups = <<>> => PatEq(task[t].pat[1], task[t].domain)

\* no step of such a check changes the cache or the table; the del of a
\* sweep is a step of its loop, and the table is written after the loop
C14_ExplicitStep ==
    \A t \in Tasks :
        /\ task'[t].kind = "testpat" => cleanmails' = cleanmails /\ mxbl' = mxbl
        /\ IsSweep(task[t]) /\ task[t].pc = "walk" => cleanmails' = cleanmails /\ mxbl' = mxbl
        /\ IsSweep(task[t]) /\ task[t].pc = "sweep_resume" =>
              /\ mxbl' = mxbl
              /\ Len(cleanmails') <= Len(cleanmails)

\* C14: a check given an explicit pattern (TESTPAT, the re-check of a
\* sweep) tests only that pattern: it never reads the cache, never inserts
\* into it, never fetches the rules and never counts a hit
C14_ExplicitPatternFrame == [](C14_ExplicitState) /\ [][C14_ExplicitStep]_vars

\* C14 witness: TESTPAT of a cached domain went through the resolver and
\* matched on an address, with the table and the cache as they were
C14_Witness ==
    /\ task[1].pc = "done"
    /\ task[1].kind = "testpat"
    /\ task[1].reply = "matches"
    /\ task[1].lookups # <<>>
    /\ Fresh(task[1].domain)
    /\ mxbl # {}
    /\ \A r \in mxbl : r.hits = 0

\* C18: CACHE DEL given the very string a live check cached, its entry not
\* expired, removes the entry, so that the next live check of that string
\* fetches the rules and goes to the resolver again
C18_OperatorEviction ==
    \A t \in Tasks :
        task[t].kind = "cache" /\ task[t].text # <<>> /\ task[t].text \in task[t].seen =>
            /\ task[t].reply = "removed"
            /\ ~Fresh(task[t].text)

\* a check of domain against patterns run alone, every lookup answered
RECURSIVE WalkAll(_)
WalkAll(tk) == IF CheckOver(tk) THEN tk ELSE WalkAll(WalkStep(tk, TRUE))

SoloCheck(domain, patterns) == WalkAll(CheckEnter(Idle, domain, patterns))

\* the live checks that did not end on the cache
Uncached(t) == IsLive(task[t]) /\ task[t].reply # "cached"

\* a live check that did not end on the cache has fetched the rules once as
\* soon as list_all answered, whatever the other tasks are at; once it has
\* ended or matched, its lookups and its match are those of the same check
\* run alone, and a match is counted in its own hit
C11_OwnWork ==
    \A t \in Tasks : Uncached(t) =>
        /\ task[t].pc = "list_all" \/ task[t].fetches = 1
        /\ task[t].pc \in {"hit", "whois", "done"} =>
              LET solo == SoloCheck(task[t].domain, list_all(mxbl))
              IN  /\ task[t].lookups = solo.lookups
                  /\ (task[t].found = <<>>) = (solo.found = <<>>)
                  /\ task[t].found # <<>> => task[t].found[1].id = solo.found[1].id
        /\ task[t].pc \in {"whois", "done"} /\ task[t].found # <<>> =>
              task[t].hits = <<task[t].found[1].id>>

\* the hits column of a row is the number of checks that counted a hit of it
C11_EveryHitCounted ==
    \A r \in mxbl : r.hits = Cardinality({t \in Tasks : task[t].hits = <<r.id>>})

\* C11: checks are not coalesced: overlapping live checks of the same
\* uncached domain each fetch the rule list and issue their own lookups, and
\* each of them that matches rule r adds one to r's hits, two of them two
C11_NoCoalescing == C11_OwnWork /\ C11_EveryHitCounted

\* C11 witness: two checks of a, both under way, both having fetched the
\* rules and gone through the resolver to the same rule, whose hits are 2
C11_Witness ==
    /\ task[1].pc = "whois" /\ task[2].pc = "whois"
    /\ task[1].domain = DomA /\ task[2].domain = DomA
    /\ task[1].fetches = 1 /\ task[2].fetches = 1
    /\ task[1].lookups # <<>> /\ task[2].lookups = task[1].lookups
    /\ task[1].found[1].id = task[2].found[1].id
    /\ HitsOf(mxbl, task[1].found[1].id) = 2

\* text starts and ends with the delimiter c
Delimited(text, c) == text[1] = c /\ text[Len(text)] = c

\* text without its first and last character
Inner(text) == IF Len(text) >= 2 THEN SubSeq(text, 2, Len(text) - 1) ELSE <<>>

HasSlash(text) == \E i \in 1..Len(text) : text[i] = "/"

\* the command parsed its text to this pattern and went on
ParsedAs(tk, ty, raw) == tk.pat = <<Pattern(ty, raw)>> /\ tk.reply # "error" /\ tk.pc # "raised"

\* the command ended on the ValueError of parse_pattern: ADD replies with
\* the error, TESTPAT lets it through; no pattern, no lookup
Rejected(tk) ==
    /\ tk.pat = <<>>
    /\ tk.lookups = <<>>
    /\ \/ tk.kind = "add" /\ tk.pc = "done" /\ tk.reply = "error"
       \/ tk.kind = "testpat" /\ tk.pc = "raised" /\ tk.reply = "ValueError"

\* the commands that parse a pattern text
Parsing(tk) == tk.kind \in {"add", "testpat"}

Strings3 == UNION {[1..k -> Alphabet \cup {"'"}] : k \in 1..3}

\* C21: round trip: the pattern GET displays, given back to parse, is a
\* pattern of the same kind that matches exactly the candidates the rule's
\* pattern matches, for each of the five kinds
C21_RoundTrip ==
    \A t \in Tasks :
        task[t].kind = "get" /\ task[t].reply = "shown" =>
            LET p == task[t].pat[1]
                q == ParsePattern(task[t].text)
            IN  /\ q.ok
                /\ q.pat.ty = p.ty
                /\ \A c \in Strings3 : PatEq(q.pat, c) = PatEq(p, c)

\* TESTPAT found its pattern to match the candidate itself, before any lookup
DirectMatch(tk) == tk.found # <<>> /\ tk.lookups = <<>>

\* a TESTPAT whose pattern is of this class
Tests(tk, ty) == tk.kind = "testpat" /\ tk.pat # <<>> /\ tk.pat[1].ty = ty

\* s up to its last character that is no "."
Undotted(s) ==
    LET keep == {i \in 1..Len(s) : s[i] # "."}
    IN  IF keep = {} THEN <<>> ELSE SubSeq(s, 1, CHOOSE i \in keep : \A j \in keep : j <= i)

\* C22: a Domain pattern matches a candidate exactly when the two are equal
\* up to trailing root dots, so that a dot added to the candidate or to the
\* text the pattern was entered with changes nothing
C22_RootDotInsensitive ==
    \A t \in Tasks : Tests(task[t], "Domain") =>
        DirectMatch(task[t]) = (Undotted(task[t].text) = Undotted(task[t].domain))

\* C22 witness: a. entered as the pattern matched the candidate a
C22_Witness ==
    /\ Tests(task[1], "Domain")
    /\ task[1].text = <<"a", ".">>
    /\ task[1].domain = <<"a">>
    /\ task[1].pc = "done"
    /\ task[1].reply = "matches"
    /\ DirectMatch(task[1])

\* a well-formed address: a bit, "." (IPv4) or ":" (IPv6), a bit
WellFormed(c) == Len(c) = 3 /\ c[1] \in {"0", "1"} /\ c[2] \in {".", ":"} /\ c[3] \in {"0", "1"}

\* the address c lies in the network written net: the same family, and the
\* same leading bits as far as the prefix length goes
Inside(c, net) ==
    /\ c[2] = net[2]
    /\ net[5] \in {"1", "2"} => c[1] = net[1]
    /\ net[5] = "2" => c[3] = net[3]

\* C23: matching never raises: TESTPAT of a well-formed pattern ends on a
\* verdict; a Cidr pattern matches exactly the well-formed addresses inside
\* its network, an IpAddr pattern exactly the equal address, and a candidate
\* that is no well-formed address is a non-match for both
C23_MatchingTotal ==
    \A t \in Tasks : task[t].kind = "testpat" /\ task[t].pat # <<>> =>
        /\ task[t].pc # "raised"
        /\ task[t].pc = "done" => task[t].reply \in {"matches", "does not match"}
        /\ Tests(task[t], "Cidr") =>
              DirectMatch(task[t]) =
                  (WellFormed(task[t].domain) /\ Inside(task[t].domain, task[t].text))
        /\ Tests(task[t], "IpAddr") =>
              DirectMatch(task[t]) = (WellFormed(task[t].domain) /\ task[t].domain = task[t].text)

\* C23 witness: the network 1.0/1 tested against a candidate that is no
\* address ended on "does not match"
C23_Witness ==
    /\ Tests(task[1], "Cidr")
    /\ task[1].text = <<"1", ".", "0", "/", "1">>
    /\ ~WellFormed(task[1].domain)
    /\ task[1].pc = "done"
    /\ task[1].reply = "does not match"

\* C24: a Glob pattern matches a candidate only if the entire candidate
\* fits the glob ("*" any run of characters, "?" exactly one), whatever the
\* case of the letters
C24_GlobWholeCandidate ==
    \A t \in Tasks : Tests(task[t], "Glob") =>
        DirectMatch(task[t]) = GlobFull(Lower(task[t].pat[1].raw), Lower(task[t].domain))

\* the exchange hostnames of the zone, as the resolver delivers them
ZoneExchanges == {MxM, MxN}

\* the check tested its i-th candidate and found it to match
MatchedAt(tk, i) == i = Len(tk.tested) /\ tk.found # <<>>

\* C30: the walker tests an MX exchange hostname in its absolute form, with
\* the trailing root dot, and a Glob pattern matches that candidate exactly
\* when it matches the hostname written without the dot
C30_GlobOnExchange ==
    \A t \in Tasks : Tests(task[t], "Glob") =>
        \A i \in 2..Len(task[t].tested) :
            task[t].tested[i] \in ZoneExchanges =>
                /\ Last(task[t].tested[i]) = "."
                /\ MatchedAt(task[t], i) =
                       PatEq(task[t].pat[1], SubSeq(task[t].tested[i], 1, Len(task[t].tested[i]) - 1))

(***************************************************************************)
(* Commands and sweeps under interleaving                                  *)
(***************************************************************************)

\* C25: an ADD or EDITPATTERN with a well-formed pattern always completes
\* its sweep and goes on to the table, whatever CACHE DEL, other sweep or
\* live check interleaves with its lookups: its handler never ends on an
\* exception
C25_SweepCompletes ==
    \A t \in Tasks : IsSweep(task[t]) => task[t].pc # "raised"

(***************************************************************************)
(* Failing lookups, lookup order, pause and TEST                           *)
(***************************************************************************)

\* the check went to the resolver and every one of its lookups failed
AllFailed(tk) ==
    /\ tk.lookups # <<>>
    /\ \A i \in 1..Len(tk.lookups) : ~tk.lookups[i].ok

\* a live check that ended with every lookup failed ended Clean, with its
\* domain in the cache and nothing counted or sent
C26_FailedState ==
    \A t \in Tasks :
        IsLive(task[t]) /\ task[t].pc = "done" /\ AllFailed(task[t]) =>
            /\ task[t].reply = "clean"
            /\ Fresh(task[t].domain)
            /\ task[t].hits = <<>>
            /\ task[t].sent = <<>>

\* a notice for a domain whose entry lives is answered from the cache: no
\* rule fetch and no lookup
C26_CachedStep ==
    \A t \in Tasks :
        (Free(t) /\ IsLive(task'[t]) /\ Fresh(task'[t].domain)) =>
            /\ task'[t].pc = "done"
            /\ task'[t].reply = "cached"
            /\ task'[t].fetches = 0
            /\ task'[t].lookups = <<>>
            /\ cleanmails' = cleanmails

ExchangesOf(d) == [i \in 1..Len(Zone(d, "MX")) |-> Zone(d, "MX")[i].value]

\* the lookup of name for the record type ty
Asked(lk, name, ty) == lk.name = name /\ lk.ty = ty

\* C27: when the seed's MX answer lists the exchanges e1..en and nothing
\* matches, the exchanges are tested in the order e1..en, and their
\* addresses are looked up in reverse order -- (en, A), (en, AAAA), ...,
\* (e1, A), (e1, AAAA) -- all of them before (seed, A) and (seed, AAAA)
C27_ReverseExchangeOrder ==
    \A t \in Tasks :
        (/\ IsLive(task[t]) /\ task[t].pc = "done" /\ task[t].reply = "clean"
         /\ task[t].lookups[1].ok) =>
            LET d == task[t].domain
                e == ExchangesOf(d)
                n == Len(e)
                lk == task[t].lookups
            IN  /\ Asked(lk[1], d, "MX")
                /\ SubSeq(task[t].tested, 1, n + 1) = <<d>> \o e
                /\ Len(lk) = 2 * n + 3
                /\ \A k \in 1..n :
                       /\ Asked(lk[2 * k], e[n + 1 - k], "A")
                       /\ Asked(lk[2 * k + 1], e[n + 1 - k], "AAAA")
                /\ Asked(lk[2 * n + 2], d, "A")
                /\ Asked(lk[2 * n + 3], d, "AAAA")

\* C27 witness: a check of a, whose exchanges are m. and n., ended Clean
\* with every lookup answered as the zone has it: n. was looked up before
\* m., m. before a
C27_Witness ==
    /\ task[1].pc = "done"
    /\ task[1].reply = "clean"
    /\ task[1].domain = DomA
    /\ ExchangesOf(DomA) = <<MxM, MxN>>
    /\ Len(task[1].lookups) = 7
    /\ \A i \in 1..7 :
           task[1].lookups[i].ok = (Zone(task[1].lookups[i].name, task[1].lookups[i].ty) # <<>>)
    /\ Asked(task[1].lookups[2], MxN, "A")
    /\ Asked(task[1].lookups[4], MxM, "A")
    /\ Asked(task[1].lookups[6], DomA, "A")

\* a live check that has counted its hit
Counted(tk) == IsLive(tk) /\ tk.pc \in {"whois", "done"} /\ tk.found # <<>>

\* whatever was sent was sent on an active rule with pause at "0"; with
\* pause at any other value, or not set, nothing is sent, and the hit is
\* counted and the domain kept out of the cache all the same
C28_PausedState ==
    \A t \in Tasks : Counted(task[t]) =>
        /\ task[t].sent # <<>> => settings.pause = <<"0">> /\ task[t].found[1].active
        /\ settings.pause # <<"0">> => task[t].sent = <<>>
        /\ task[t].hits = <<task[t].found[1].id>>
        /\ ~Fresh(task[t].domain)

\* the hit is counted in the table whatever pause is
C28_HitStep ==
    \A t \in Tasks :
        (task[t].pc = "hit" /\ task'[t].pc = "whois") =>
            HitsOf(mxbl', task[t].found[1].id) = HitsOf(mxbl, task[t].found[1].id) + 1

\* C28: BADMAIL ADD, FDROP and FREEZE are sent only while the loaded setting
\* pause is exactly "0"; with any other value, or with pause not set, a
\* match on an active rule sends nothing, although its hit is counted and
\* the domain is not cached
C28_PauseGate == [](C28_PausedState) /\ [][C28_HitStep]_vars

\* C28 witness: pause is not set, a REGISTER notice matched an active rule:
\* nothing was sent and the rule has its hit
C28_Witness ==
    /\ settings.pause = <<>>
    /\ Counted(task[1])
    /\ task[1].kind = "register"
    /\ task[1].found[1].active
    /\ task[1].sent = <<>>
    /\ HitsOf(mxbl, task[1].found[1].id) = 1

\* a step of a TEST command: its start, its database answer, its lookups
\* and its reply
TestStep(t) == task'[t] # task[t] /\ task'[t].kind = "test"

\* C29: the TEST command has no side effects on engine state: whatever its
\* verdict, none of its steps counts a hit, inserts into or evicts from the
\* cache of clean domains, or sends an enforcement command
C29_TestHasNoEffect ==
    [][\A t \in Tasks : TestStep(t) =>
          /\ mxbl' = mxbl
          /\ cleanmails' = cleanmails
          /\ iter' = iter
          /\ settings' = settings
          /\ task'[t].hits = <<>>
          /\ task'[t].sent = <<>>]_vars

\* C29 witness: with a clean domain in the cache, TEST has found a domain
\* to match an active rule while pause is "0": the rule has no hit and the
\* cache holds what it held
C29_Witness ==
    /\ task[1].kind = "test"
    /\ task[1].pc = "done"
    /\ task[1].reply = "matches"
    /\ task[1].found[1].active
    /\ settings.pause = <<"0">>
    /\ HitsOf(mxbl, task[1].found[1].id) = 0
    /\ Keys(Unexpired(cleanmails, now)) # {}

=============================================================================
